---- MODULE Spec2Model ----
(***************************************************************************)
(* Verification model of the partitioned hypergraph of mt-kahypar:         *)
(* pin counts, connectivity sets, block weights and the km1 gain cache     *)
(* under the move primitive changeNodePart / changeNodePartFullUpdate.     *)
(*                                                                         *)
(* The object state is one record (the fields of PartitionedHypergraph);   *)
(* every operation is an operator from records to records, translated from *)
(* the code.  Spec runs the operations one call at a time; SpecConc runs   *)
(* changeNodePart calls of several threads step by step.                   *)
(***************************************************************************)
EXTENDS Integers, Sequences, FiniteSets, TLC

\* ------------------------------------------------------------------------
\* Bounds of the model
\* ------------------------------------------------------------------------

\* number of changeNodePart calls in one behaviour of Spec
MaxCalls == 3

\* ------------------------------------------------------------------------
\* The hypergraph the partition wraps (_hg): a fixed instance.
\* ------------------------------------------------------------------------

\* number of blocks
k == 2

kInvalidPartition == -1

\* std::numeric_limits<HypernodeWeight>::max()
kMaxWeight == 2147483647

Blocks == 0 .. (k - 1)

\* pins of every hyperedge, in the order pins(e) iterates them
HgPins == << <<0, 1, 2>>, <<1, 2>> >>

HgEdgeWeights == << 1, 2 >>

HgNodeWeights == << 1, 2, 1 >>

Nodes == 0 .. (Len(HgNodeWeights) - 1)

Edges == 0 .. (Len(HgPins) - 1)

pins(e) == HgPins[e + 1]

edgeWeight(e) == HgEdgeWeights[e + 1]

edgeSize(e) == Len(pins(e))

nodeWeight(u) == HgNodeWeights[u + 1]

PinSet(e) == { pins(e)[i] : i \in 1 .. Len(pins(e)) }

RECURSIVE IncidentFrom(_, _)
IncidentFrom(u, e) ==
  IF e \notin Edges THEN << >>
  ELSE IF u \in PinSet(e) THEN << e >> \o IncidentFrom(u, e + 1)
  ELSE IncidentFrom(u, e + 1)

\* incident nets of u, in ascending edge order
incidentEdges(u) == IncidentFrom(u, 0)

nodeDegree(u) == Len(incidentEdges(u))

\* ------------------------------------------------------------------------
\* Small helpers
\* ------------------------------------------------------------------------

RECURSIVE SumSeq(_)
SumSeq(q) == IF q = << >> THEN 0 ELSE Head(q) + SumSeq(Tail(q))

RECURSIVE SumOver(_, _)
SumOver(S, f) ==
  IF S = {} THEN 0
  ELSE LET x == CHOOSE y \in S : TRUE IN f[x] + SumOver(S \ {x}, f)

\* ------------------------------------------------------------------------
\* PartitionedHypergraph: the object state as a record, and its accessors
\* ------------------------------------------------------------------------

\* state after the constructor: no vertex assigned, everything zero
Constructed ==
  [ part_ids |-> [u \in Nodes |-> kInvalidPartition],
    part_weights |-> [p \in Blocks |-> 0],
    pins_in_part |-> [e \in Edges |-> [p \in Blocks |-> 0]],
    connectivity_set |-> [e \in Edges |-> {}],
    move_to_penalty |-> [u \in Nodes |-> [p \in Blocks |-> 0]],
    move_from_benefit |-> [u \in Nodes |-> 0],
    pin_count_update_ownership |-> [e \in Edges |-> FALSE],
    is_gain_cache_initialized |-> FALSE ]

partID(s, u) == s.part_ids[u]

partWeight(s, p) == s.part_weights[p]

pinCountInPart(s, e, p) == s.pins_in_part[e][p]

connectivity(s, e) == Cardinality(s.connectivity_set[e])

moveFromBenefit(s, u) == s.move_from_benefit[u]

moveToPenalty(s, u, p) == s.move_to_penalty[u][p]

km1Gain(s, u, from, to) == moveFromBenefit(s, u) - moveToPenalty(s, u, to)

HIGH_DEGREE_THRESHOLD == 100000

\* mutant: the loop over the incident hyperedges runs whatever the degree
isBorderNodeOfDegree_NoThreshold(degree, lambda) ==
  \E i \in 1 .. degree : lambda[i] > 1

\* isBorderNode for a vertex with the given degree whose i-th incident
\* hyperedge has connectivity lambda[i]
isBorderNodeOfDegree(degree, lambda) ==
  IF degree <= HIGH_DEGREE_THRESHOLD
  THEN \E i \in 1 .. degree : lambda[i] > 1
  ELSE FALSE

isBorderNode(s, u) ==
  isBorderNodeOfDegree(nodeDegree(u),
    [i \in 1 .. nodeDegree(u) |-> connectivity(s, incidentEdges(u)[i])])

\* ---- values recomputed from the part ids (the code's test helpers) ----

pinCountInPartRecomputed(s, e, p) ==
  Cardinality({ u \in PinSet(e) : partID(s, u) = p })

moveFromBenefitRecomputed(s, u) ==
  SumSeq([ i \in 1 .. Len(incidentEdges(u)) |->
             IF pinCountInPart(s, incidentEdges(u)[i], partID(s, u)) = 1
             THEN edgeWeight(incidentEdges(u)[i]) ELSE 0 ])

moveToPenaltyRecomputed(s, u, p) ==
  SumSeq([ i \in 1 .. Len(incidentEdges(u)) |->
             IF pinCountInPart(s, incidentEdges(u)[i], p) = 0
             THEN edgeWeight(incidentEdges(u)[i]) ELSE 0 ])

partWeightRecomputed(s, p) ==
  SumOver({ u \in Nodes : partID(s, u) = p }, [u \in Nodes |-> nodeWeight(u)])

\* the connectivity metric: sum over e of w(e) * (lambda(e) - 1)
km1(s) ==
  SumOver(Edges, [e \in Edges |->
     IF connectivity(s, e) = 0 THEN 0 ELSE edgeWeight(e) * (connectivity(s, e) - 1)])

\* ------------------------------------------------------------------------
\* Pin counts and connectivity sets
\* ------------------------------------------------------------------------

\* mutant: the block is removed from the connectivity set one pin too early
decrementPinCount_RemovesAtOne(s, e, p) ==
  LET pin_count_after == s.pins_in_part[e][p] - 1
  IN [ s |-> [s EXCEPT !.pins_in_part[e][p] = pin_count_after,
                       !.connectivity_set[e] =
                          IF pin_count_after = 1 THEN @ \ {p} ELSE @],
       pin_count_after |-> pin_count_after ]

\* pin count of (e, p) lowered by one; p leaves the connectivity set at zero
decrementPinCountInPartWithoutGainUpdate(s, e, p) ==
  LET pin_count_after == s.pins_in_part[e][p] - 1
  IN [ s |-> [s EXCEPT !.pins_in_part[e][p] = pin_count_after,
                       !.connectivity_set[e] =
                          IF pin_count_after = 0 THEN @ \ {p} ELSE @],
       pin_count_after |-> pin_count_after ]

\* mutant: the block joins the connectivity set one pin too late
incrementPinCount_AddsAtTwo(s, e, p) ==
  LET pin_count_after == s.pins_in_part[e][p] + 1
  IN [ s |-> [s EXCEPT !.pins_in_part[e][p] = pin_count_after,
                       !.connectivity_set[e] =
                          IF pin_count_after = 2 THEN @ \cup {p} ELSE @],
       pin_count_after |-> pin_count_after ]

\* pin count of (e, p) raised by one; p joins the connectivity set at one
incrementPinCountInPartWithoutGainUpdate(s, e, p) ==
  LET pin_count_after == s.pins_in_part[e][p] + 1
  IN [ s |-> [s EXCEPT !.pins_in_part[e][p] = pin_count_after,
                       !.connectivity_set[e] =
                          IF pin_count_after = 1 THEN @ \cup {p} ELSE @],
       pin_count_after |-> pin_count_after ]

\* ------------------------------------------------------------------------
\* Assignment
\* ------------------------------------------------------------------------

setOnlyNodePart(s, u, p) == [s EXCEPT !.part_ids[u] = p]

RECURSIVE IncrementAll(_, _, _)
IncrementAll(s, hes, p) ==
  IF hes = << >> THEN s
  ELSE IncrementAll(incrementPinCountInPartWithoutGainUpdate(s, Head(hes), p).s,
                    Tail(hes), p)

\* mutant: the weight of the block is not updated
setNodePart_NoWeight(s, u, p) ==
  IncrementAll(setOnlyNodePart(s, u, p), incidentEdges(u), p)

setNodePart(s, u, p) ==
  LET s1 == setOnlyNodePart(s, u, p)
      s2 == [s1 EXCEPT !.part_weights[p] = @ + nodeWeight(u)]
  IN IncrementAll(s2, incidentEdges(u), p)

\* adds the weight of every vertex to the weight of its block
initializeBlockWeights(s) ==
  [s EXCEPT !.part_weights =
     [p \in Blocks |-> s.part_weights[p] + partWeightRecomputed(s, p)]]

\* the thread-local pin_counts vector after the loop over the pins of one edge
RECURSIVE CountPins(_, _, _)
CountPins(s, ps, pin_counts) ==
  IF ps = << >> THEN pin_counts
  ELSE CountPins(s, Tail(ps),
                 [pin_counts EXCEPT ![partID(s, Head(ps))] = @ + 1])

\* counts the pins per block and stores the non-zero counts
initializePinCountInPart(s) ==
  LET cnt == [e \in Edges |-> CountPins(s, pins(e), [p \in Blocks |-> 0])]
  IN [s EXCEPT
        !.pins_in_part = [e \in Edges |-> [p \in Blocks |->
            IF cnt[e][p] > 0 THEN cnt[e][p] ELSE s.pins_in_part[e][p]]],
        !.connectivity_set = [e \in Edges |->
            s.connectivity_set[e] \cup { p \in Blocks : cnt[e][p] > 0 }]]

initializePartition(s) == initializePinCountInPart(initializeBlockWeights(s))

\* mutant: the pin counts of the blocks in the connectivity sets are kept
resetPartition_KeepsPinCounts(s) ==
  [s EXCEPT
     !.part_ids = [u \in Nodes |-> kInvalidPartition],
     !.part_weights = [p \in Blocks |-> 0],
     !.connectivity_set = [e \in Edges |-> {}]]

\* part ids, block weights, then per hyperedge the pin counts of the blocks
\* of its connectivity set and the connectivity set itself
resetPartition(s) ==
  [s EXCEPT
     !.part_ids = [u \in Nodes |-> kInvalidPartition],
     !.part_weights = [p \in Blocks |-> 0],
     !.pins_in_part = [e \in Edges |-> [p \in Blocks |->
         IF p \in s.connectivity_set[e] THEN 0 ELSE s.pins_in_part[e][p]]],
     !.connectivity_set = [e \in Edges |-> {}]]

\* ------------------------------------------------------------------------
\* Gain cache: initialization
\* ------------------------------------------------------------------------

\* contribution of the incident edges hes of a vertex in block block_of_u:
\* the benefit, the total incident weight, and the per-block sum that is
\* subtracted from it (one entry per block of each edge's connectivity set)
RECURSIVE AggregateContribution(_, _, _, _)
AggregateContribution(s, block_of_u, hes, acc) ==
  IF hes = << >> THEN acc
  ELSE LET he == Head(hes)
           edge_weight == edgeWeight(he)
       IN AggregateContribution(s, block_of_u, Tail(hes),
            [ l_move_from_benefit |->
                 IF pinCountInPart(s, he, block_of_u) = 1
                 THEN acc.l_move_from_benefit + edge_weight
                 ELSE acc.l_move_from_benefit,
              incident_edges_weight |-> acc.incident_edges_weight + edge_weight,
              l_move_to_penalty |-> [p \in Blocks |->
                 IF p \in s.connectivity_set[he]
                 THEN acc.l_move_to_penalty[p] - edge_weight
                 ELSE acc.l_move_to_penalty[p]] ])

\* the threads of the TBB arena
Threads == { 1, 2 }

\* a fresh pair of per-vertex sums next to the thread's l_move_to_penalty
Accumulator(l_move_to_penalty) ==
  [ l_move_from_benefit |-> 0,
    incident_edges_weight |-> 0,
    l_move_to_penalty |-> l_move_to_penalty ]

\* mutant: the thread-local entries are not set back to zero after the store
StoreAndKeep(s, u, agg) ==
  [ s |-> [s EXCEPT
       !.move_from_benefit[u] = agg.l_move_from_benefit,
       !.move_to_penalty[u] = [p \in Blocks |->
           agg.l_move_to_penalty[p] + agg.incident_edges_weight]],
    l_move_to_penalty |-> agg.l_move_to_penalty ]

\* the stores of a low degree vertex u: the benefit, and per block the
\* thread-local entry plus the incident weight, the entry then set to zero
StoreAndReset(s, u, agg) ==
  [ s |-> [s EXCEPT
       !.move_from_benefit[u] = agg.l_move_from_benefit,
       !.move_to_penalty[u] = [p \in Blocks |->
           agg.l_move_to_penalty[p] + agg.incident_edges_weight]],
    l_move_to_penalty |-> [p \in Blocks |-> 0] ]

\* first stage: the vertices in the order they are visited, each by the
\* thread owner[u] with the l_move_to_penalty that thread had left; vertices
\* above the threshold are only collected
RECURSIVE LowDegreeStage(_, _, _, _, _)
LowDegreeStage(s, order, owner, ets_mtp, high_degree_vertices) ==
  IF order = << >>
  THEN [ s |-> s, ets_mtp |-> ets_mtp, high_degree_vertices |-> high_degree_vertices ]
  ELSE LET u == Head(order)
           t == owner[u]
       IN IF nodeDegree(u) <= HIGH_DEGREE_THRESHOLD
          THEN LET agg == AggregateContribution(s, partID(s, u), incidentEdges(u),
                            Accumulator(ets_mtp[t]))
                   st == StoreAndReset(s, u, agg)
               IN LowDegreeStage(st.s, Tail(order), owner,
                    [ets_mtp EXCEPT ![t] = st.l_move_to_penalty],
                    high_degree_vertices)
          ELSE LowDegreeStage(s, Tail(order), owner, ets_mtp,
                              Append(high_degree_vertices, u))

\* a high degree vertex u: thread t aggregates the incident edges it owns
\* into its own locals, then the locals of all threads are combined, stored
\* and the l_move_to_penalty entries set back to zero
HighDegreeVertex(s, u, edge_owner, ets_mtp) ==
  LET OwnedBy(t) == SelectSeq(incidentEdges(u), LAMBDA he : edge_owner[he] = t)
      agg == [t \in Threads |->
                AggregateContribution(s, partID(s, u), OwnedBy(t),
                                      Accumulator(ets_mtp[t]))]
      ets_mfb == [t \in Threads |-> agg[t].l_move_from_benefit]
      ets_iew == [t \in Threads |-> agg[t].incident_edges_weight]
      incident_edges_weight == SumOver(Threads, ets_iew)
  IN [ s |-> [s EXCEPT
         !.move_from_benefit[u] = SumOver(Threads, ets_mfb),
         !.move_to_penalty[u] = [p \in Blocks |->
             SumOver(Threads, [t \in Threads |-> agg[t].l_move_to_penalty[p]])
               + incident_edges_weight]],
       ets_mtp |-> [t \in Threads |-> [p \in Blocks |-> 0]] ]

\* second stage: the collected vertices one after the other
RECURSIVE HighDegreeStage(_, _, _, _)
HighDegreeStage(s, high_degree_vertices, edge_owner, ets_mtp) ==
  IF high_degree_vertices = << >> THEN s
  ELSE LET h == HighDegreeVertex(s, Head(high_degree_vertices), edge_owner, ets_mtp)
       IN HighDegreeStage(h.s, Tail(high_degree_vertices), edge_owner, h.ets_mtp)

\* the orders in which the parallel_for can visit the vertices
NodeOrders ==
  { q \in [1 .. Cardinality(Nodes) -> Nodes] :
      \A i, j \in 1 .. Cardinality(Nodes) : i # j => q[i] # q[j] }

\* the ways the second stage can split incident hyperedges among the
\* threads; without a vertex above the threshold its parallel_for never runs
EdgeSplits ==
  IF \E u \in Nodes : nodeDegree(u) > HIGH_DEGREE_THRESHOLD
  THEN [Edges -> Threads]
  ELSE { [e \in Edges |-> 1] }

initializeGainInformation(s, order, owner, edge_owner) ==
  LET low == LowDegreeStage(s, order, owner,
                            [t \in Threads |-> [p \in Blocks |-> 0]], << >>)
      high == HighDegreeStage(low.s, low.high_degree_vertices, edge_owner,
                              low.ets_mtp)
  IN [high EXCEPT !.is_gain_cache_initialized = TRUE]

\* ------------------------------------------------------------------------
\* Gain cache: delta update for one hyperedge of one move
\* ------------------------------------------------------------------------

\* c_from = 1, one pin u of the scan: the first pin found in block from
\* receives the benefit and ends the scan
GainFromPin(s, u, from, we) ==
  IF partID(s, u) = from
  THEN [ s |-> [s EXCEPT !.move_from_benefit[u] = @ + we], found |-> TRUE ]
  ELSE [ s |-> s, found |-> FALSE ]

\* c_to = 2, one pin u of the scan: every pin found in block to loses the benefit
GainToPin(s, u, to, we) ==
  IF partID(s, u) = to
  THEN [s EXCEPT !.move_from_benefit[u] = @ - we]
  ELSE s

\* c_from = 0: the penalty of block from rises for every pin
GainFromEmptied(s, he, from, we) ==
  [s EXCEPT !.move_to_penalty = [u \in Nodes |->
      IF u \in PinSet(he) THEN [@[u] EXCEPT ![from] = @ + we] ELSE @[u]]]

\* mutant: the moved vertex, already in block to, is left out
GainToFirst_OthersOnly(s, he, to, we) ==
  [s EXCEPT !.move_to_penalty = [u \in Nodes |->
      IF u \in PinSet(he) /\ partID(s, u) # to
      THEN [@[u] EXCEPT ![to] = @ - we] ELSE @[u]]]

\* c_to = 1: the penalty of block to falls for every pin
GainToFirst(s, he, to, we) ==
  [s EXCEPT !.move_to_penalty = [u \in Nodes |->
      IF u \in PinSet(he) THEN [@[u] EXCEPT ![to] = @ - we] ELSE @[u]]]

RECURSIVE ScanFrom(_, _, _, _)
ScanFrom(s, ps, from, we) ==
  IF ps = << >> THEN s
  ELSE LET r == GainFromPin(s, Head(ps), from, we)
       IN IF r.found THEN r.s ELSE ScanFrom(r.s, Tail(ps), from, we)

RECURSIVE ScanTo(_, _, _, _)
ScanTo(s, ps, to, we) ==
  IF ps = << >> THEN s
  ELSE ScanTo(GainToPin(s, Head(ps), to, we), Tail(ps), to, we)

gainCacheUpdate(s, he, we, from, pin_count_in_from_part_after, to, pin_count_in_to_part_after) ==
  LET s1 == IF pin_count_in_from_part_after = 1
              THEN ScanFrom(s, pins(he), from, we)
            ELSE IF pin_count_in_from_part_after = 0
              THEN GainFromEmptied(s, he, from, we)
            ELSE s
  IN IF pin_count_in_to_part_after = 1
       THEN GainToFirst(s1, he, to, we)
     ELSE IF pin_count_in_to_part_after = 2
       THEN ScanTo(s1, pins(he), to, we)
     ELSE s1

\* ------------------------------------------------------------------------
\* The move primitive
\* ------------------------------------------------------------------------

\* value returned by an atomic add_fetch: the value after the addition
add_fetch(x, arg) == x + arg

\* value returned by an atomic fetch_sub: the value before the subtraction
fetch_sub(x, arg) == x

\* mutant: the limit on the weight of block to is not looked at
BalanceTest_NoMax(to_weight_after, from_weight_after, max_weight_to) ==
  from_weight_after > 0

\* the balance test of changeNodePart on the two returned values
BalanceTest(to_weight_after, from_weight_after, max_weight_to) ==
  to_weight_after <= max_weight_to /\ from_weight_after > 0

\* the speculative weight update at the start of changeNodePart
SpeculateWeights(s, u, from, to) ==
  LET wu == nodeWeight(u)
      to_weight_after == add_fetch(s.part_weights[to], wu)
      s1 == [s EXCEPT !.part_weights[to] = @ + wu]
      from_weight_after == fetch_sub(s1.part_weights[from], wu)
      s2 == [s1 EXCEPT !.part_weights[from] = @ - wu]
  IN [ s |-> s2, to_weight_after |-> to_weight_after,
       from_weight_after |-> from_weight_after ]

\* mutant: only the weight of block to is taken back
UndoWeights_ToOnly(s, u, from, to) ==
  [s EXCEPT !.part_weights[to] = @ - nodeWeight(u)]

\* the else branch of changeNodePart: the speculative update is taken back
UndoWeights(s, u, from, to) ==
  [s EXCEPT !.part_weights[to] = @ - nodeWeight(u),
            !.part_weights[from] = @ + nodeWeight(u)]

DeltaEvent(he, pin_count_in_from_part_after, pin_count_in_to_part_after) ==
  [ he |-> he, edge_weight |-> edgeWeight(he), edge_size |-> edgeSize(he),
    pin_count_in_from_part_after |-> pin_count_in_from_part_after,
    pin_count_in_to_part_after |-> pin_count_in_to_part_after ]

\* one entry of the log of callbacks and cache updates a call makes, in order
Invocation(f, he, pin_count_in_from_part_after, pin_count_in_to_part_after) ==
  [ f |-> f, he |-> he,
    pin_count_in_from_part_after |-> pin_count_in_from_part_after,
    pin_count_in_to_part_after |-> pin_count_in_to_part_after ]

\* what my_delta_func of changeNodePartFullUpdate invokes for one hyperedge:
\* the caller's delta_func, then gainCacheUpdate; plain calls invoke
\* delta_func only
DeltaInvocations(he, full, pin_count_in_from_part_after, pin_count_in_to_part_after) ==
  << Invocation("delta_func", he, pin_count_in_from_part_after,
                pin_count_in_to_part_after) >> \o
  ( IF full
    THEN << Invocation("gainCacheUpdate", he, pin_count_in_from_part_after,
                       pin_count_in_to_part_after) >>
    ELSE << >> )

\* mutant: the increment of block to is left out
AcquireAndCount_NoIncrement(s, he, from, to) ==
  IF s.pin_count_update_ownership[he]
  THEN [ s |-> s, acquired |-> FALSE,
         pin_count_in_from_part_after |-> 0, pin_count_in_to_part_after |-> 0 ]
  ELSE LET s1 == [s EXCEPT !.pin_count_update_ownership[he] = TRUE]
           d == decrementPinCountInPartWithoutGainUpdate(s1, he, from)
       IN [ s |-> d.s, acquired |-> TRUE,
            pin_count_in_from_part_after |-> d.pin_count_after,
            pin_count_in_to_part_after |-> d.s.pins_in_part[he][to] ]

\* mutant: the ownership flag is set without looking at its value
AcquireAndCount_NoCAS(s, he, from, to) ==
  LET s1 == [s EXCEPT !.pin_count_update_ownership[he] = TRUE]
      d == decrementPinCountInPartWithoutGainUpdate(s1, he, from)
      i == incrementPinCountInPartWithoutGainUpdate(d.s, he, to)
  IN [ s |-> i.s, acquired |-> TRUE,
       pin_count_in_from_part_after |-> d.pin_count_after,
       pin_count_in_to_part_after |-> i.pin_count_after ]

\* the CAS on the ownership flag of he and, when it succeeds, the decrement
\* and the increment that follow under the lock
AcquireAndCount(s, he, from, to) ==
  IF s.pin_count_update_ownership[he]
  THEN [ s |-> s, acquired |-> FALSE,
         pin_count_in_from_part_after |-> 0, pin_count_in_to_part_after |-> 0 ]
  ELSE LET s1 == [s EXCEPT !.pin_count_update_ownership[he] = TRUE]
           d == decrementPinCountInPartWithoutGainUpdate(s1, he, from)
           i == incrementPinCountInPartWithoutGainUpdate(d.s, he, to)
       IN [ s |-> i.s, acquired |-> TRUE,
            pin_count_in_from_part_after |-> d.pin_count_after,
            pin_count_in_to_part_after |-> i.pin_count_after ]

\* mutant: the ownership flag is left set
ReleaseOwnership_Keeps(s, he) == s

\* _pin_count_update_ownership[he].store(false)
ReleaseOwnership(s, he) == [s EXCEPT !.pin_count_update_ownership[he] = FALSE]

\* one uncontended call: lock, pin counts, delta_func (with the gain cache
\* update when full), unlock
updatePinCountOfHyperedgeWithoutGainUpdates(s, he, from, to, full) ==
  LET a == AcquireAndCount(s, he, from, to)
      g == IF full
           THEN gainCacheUpdate(a.s, he, edgeWeight(he),
                                from, a.pin_count_in_from_part_after,
                                to, a.pin_count_in_to_part_after)
           ELSE a.s
  IN IF a.acquired
     THEN [ s |-> ReleaseOwnership(g, he), acquired |-> TRUE,
            event |-> DeltaEvent(he, a.pin_count_in_from_part_after,
                                 a.pin_count_in_to_part_after),
            calls |-> DeltaInvocations(he, full, a.pin_count_in_from_part_after,
                                       a.pin_count_in_to_part_after) ]
     ELSE [ s |-> s, acquired |-> FALSE, event |-> DeltaEvent(he, 0, 0),
            calls |-> << >> ]

\* mutant: the loop over the incident hyperedges ends after the first one
UpdateIncidentEdges_FirstOnly(s, hes, from, to, full, events, calls) ==
  IF hes = << >> THEN [ s |-> s, events |-> events, calls |-> calls ]
  ELSE LET r == updatePinCountOfHyperedgeWithoutGainUpdates(s, Head(hes), from, to, full)
       IN [ s |-> r.s, events |-> Append(events, r.event),
            calls |-> calls \o r.calls ]

RECURSIVE UpdateIncidentEdges(_, _, _, _, _, _, _)
UpdateIncidentEdges(s, hes, from, to, full, events, calls) ==
  IF hes = << >> THEN [ s |-> s, events |-> events, calls |-> calls ]
  ELSE LET r == updatePinCountOfHyperedgeWithoutGainUpdates(s, Head(hes), from, to, full)
       IN UpdateIncidentEdges(r.s, Tail(hes), from, to, full,
                              Append(events, r.event), calls \o r.calls)

\* changeNodePart run to completion with no other thread active; full selects
\* the delta function of changeNodePartFullUpdate
changeNodePart(s, u, from, to, max_weight_to, full) ==
  LET w == SpeculateWeights(s, u, from, to)
  IN IF BalanceTest(w.to_weight_after, w.from_weight_after, max_weight_to)
     THEN LET s1 == [w.s EXCEPT !.part_ids[u] = to]
              r == UpdateIncidentEdges(s1, incidentEdges(u), from, to, full, << >>,
                     << Invocation("report_success", 0, 0, 0) >>)
          IN [ s |-> r.s, success |-> TRUE, events |-> r.events, calls |-> r.calls ]
     ELSE [ s |-> UndoWeights(w.s, u, from, to), success |-> FALSE,
            events |-> << >>, calls |-> << >> ]

changeNodePartFullUpdate(s, u, from, to, max_weight_to) ==
  changeNodePart(s, u, from, to, max_weight_to, TRUE)

\* ------------------------------------------------------------------------
\* State of the model
\* ------------------------------------------------------------------------

VARIABLES
  phg,        \* the PartitionedHypergraph object
  lifecycle,  \* how far the caller is: "new", "set_only", "set_full", "partitioned", "reset"
  ncalls,     \* number of changeNodePart calls made so far
  last,       \* the latest call run to completion: arguments, result, state before it
  prev,       \* the call before the latest one
  th,         \* per thread: the position and the locals of its changeNodePart call
  start,      \* the object when the first concurrent call began
  done,       \* the concurrent calls that have returned, in the order they returned
  star,       \* a vertex given by its degree and its cut incident hyperedges, and
              \* what isBorderNode returned for it
  ex,         \* a partitioned hypergraph given by its hyperedges and part ids, a
              \* block of it, and what extract returned
  rb,         \* a move log handed to the global rollback, and what it did
  fm,         \* the MultiTryKWayFM refiner: its round, its work queue of seeds,
              \* the node tracker and the move log of the round
  wk,         \* per thread: the position of its task in a round of refine
  bd,         \* a vertex as the gain evaluation sees it, and what the evaluation
              \* returned
  pq,         \* the priority queues of one localized search
  aw,         \* an IntegralAtomicWrapper and the operators applied to it
  cq,         \* a NumaWorkQueue, the threads that pop from it and what they got
  hc,         \* DynamicHypergraphFactory::construct: its input, its position and
              \* the hypergraph it builds
  un          \* a partitioned hypergraph during uncoarsening: its pins, its part
              \* ids and the information tracked for them

\* the objects next to the partitioned hypergraph of the fixture
lib_vars == << aw, cq, hc, un >>

ds_vars == << star, ex, rb, lib_vars >>

\* the objects of the FM refinement
fm_vars == << fm, wk, bd, pq >>

driver_vars == << ds_vars, fm_vars >>

vars == << phg, lifecycle, ncalls, last, prev, th, start, done, driver_vars >>

seq_vars == << last, prev >>

conc_vars == << th, start, done >>


\* the limit the refiner passes as max_weight_to: max_part_weights[to]
MaxPartWeight == 2

MaxWeightChoices == { MaxPartWeight, kMaxWeight }

NoCall ==
  [ op |-> "none", u |-> 0, from |-> 0, to |-> 0, max_weight_to |-> 0,
    success |-> FALSE, pre |-> Constructed, events |-> << >>, calls |-> << >> ]

\* a thread outside changeNodePart
Idle ==
  [ pc |-> "idle", u |-> 0, from |-> 0, to |-> 0, max_weight_to |-> 0,
    full |-> FALSE, to_weight_at_call |-> 0, to_weight_after |-> 0,
    from_weight_after |-> 0, i |-> 0, j |-> 0,
    pin_count_in_from_part_after |-> 0, pin_count_in_to_part_after |-> 0,
    overlapped |-> FALSE ]

AllAssigned(s) == \A u \in Nodes : partID(s, u) # kInvalidPartition

\* no vertex has been handed to isBorderNode
NoStar == [ degree |-> 0, cut |-> {}, called |-> FALSE, result |-> FALSE ]

\* extract has not been called
NoExtract ==
  [ pins |-> << >>, part |-> << >>, block |-> 0, cut_net_splitting |-> FALSE,
    called |-> FALSE, result |-> << >> ]

\* the global rollback has not been called
NoRollback == [ log |-> << >>, called |-> FALSE, result |-> << >> ]

\* refine has not been called
NoRefine == [ pc |-> "none" ]

\* no task of refine runs
NoWorkers == [t \in Threads |-> [ pc |-> "none" ]]

\* no gain has been evaluated
NoGain == [ called |-> FALSE ]

\* no localized search has priority queues
NoPQ == [ called |-> FALSE ]

\* no atomic wrapper is used
NoAtomic == [ op |-> "none" ]

\* no work queue is used
NoQueue == [ pc |-> "none" ]

\* construct has not been called
NoConstruct == [ pc |-> "none" ]

\* no hypergraph is uncoarsened
NoUncontract == [ pc |-> "none" ]

\* none of the objects next to the partitioned hypergraph is used
LibIdle == aw = NoAtomic /\ cq = NoQueue /\ hc = NoConstruct /\ un = NoUncontract

DsIdle == star = NoStar /\ ex = NoExtract /\ rb = NoRollback /\ LibIdle

\* none of the objects of the FM refinement is used
FmIdle == fm = NoRefine /\ wk = NoWorkers /\ bd = NoGain /\ pq = NoPQ

\* the partitioned hypergraph of the fixture right after its construction
InitObject ==
  /\ phg = Constructed
  /\ lifecycle = "new"
  /\ ncalls = 0
  /\ last = NoCall
  /\ prev = NoCall
  /\ th = [t \in Threads |-> Idle]
  /\ start = Constructed
  /\ done = << >>

object_vars == << phg, lifecycle, ncalls, last, prev, th, start, done >>

Init ==
  /\ InitObject
  /\ DsIdle
  /\ FmIdle

SetOnlyNodePart(u, p) ==
  /\ lifecycle \in { "new", "set_only" }
  /\ partID(phg, u) = kInvalidPartition
  /\ phg' = setOnlyNodePart(phg, u, p)
  /\ lifecycle' = "set_only"
  /\ UNCHANGED << driver_vars, ncalls, seq_vars, conc_vars >>

SetNodePart(u, p) ==
  /\ lifecycle \in { "new", "set_full" }
  /\ partID(phg, u) = kInvalidPartition
  /\ phg' = setNodePart(phg, u, p)
  /\ lifecycle' = IF AllAssigned(phg') THEN "partitioned" ELSE "set_full"
  /\ UNCHANGED << driver_vars, ncalls, seq_vars, conc_vars >>

InitializePartition ==
  /\ lifecycle = "set_only"
  /\ AllAssigned(phg)
  /\ phg' = initializePartition(phg)
  /\ lifecycle' = "partitioned"
  /\ UNCHANGED << driver_vars, ncalls, seq_vars, conc_vars >>

InitializeGainInformation ==
  /\ lifecycle = "partitioned"
  /\ \A t \in Threads : th[t].pc = "idle"
  /\ ~phg.is_gain_cache_initialized
  /\ \E order \in NodeOrders, owner \in [Nodes -> Threads],
        edge_owner \in EdgeSplits :
       phg' = initializeGainInformation(phg, order, owner, edge_owner)
  /\ UNCHANGED << driver_vars, lifecycle, ncalls, seq_vars, conc_vars >>

\* a call of changeNodePart (before the gain cache exists) or of
\* changeNodePartFullUpdate (once it does), run to completion
ChangeNodePart(u, to, max_weight_to) ==
  /\ lifecycle = "partitioned"
  /\ ncalls < MaxCalls
  /\ partID(phg, u) # to
  /\ LET full == phg.is_gain_cache_initialized
         r == changeNodePart(phg, u, partID(phg, u), to, max_weight_to, full)
     IN /\ phg' = r.s
        /\ last' = [ op |-> IF full THEN "full" ELSE "plain",
                     u |-> u, from |-> partID(phg, u), to |-> to,
                     max_weight_to |-> max_weight_to, success |-> r.success,
                     pre |-> phg, events |-> r.events, calls |-> r.calls ]
  /\ prev' = last
  /\ ncalls' = ncalls + 1
  /\ UNCHANGED << driver_vars, lifecycle, conc_vars >>

Next ==
  \/ \E u \in Nodes, p \in Blocks : SetOnlyNodePart(u, p)
  \/ \E u \in Nodes, p \in Blocks : SetNodePart(u, p)
  \/ InitializePartition
  \/ InitializeGainInformation
  \/ \E u \in Nodes, to \in Blocks, m \in MaxWeightChoices : ChangeNodePart(u, to, m)

Spec == Init /\ [][Next]_vars

\* ------------------------------------------------------------------------
\* Concurrent calls of changeNodePart, one shared-memory access per step.
\* Additions to gain cache entries are atomic and read by no mover, so a
\* step that only adds to them is folded into the step before it.
\* ------------------------------------------------------------------------

\* number of changeNodePart calls in one behaviour of SpecConc
MaxConcCalls == 2

\* what is kept of a call that returns: its arguments, its result, the weight
\* of block to when the call began, the block of u when it returned, and
\* whether another call was in flight during it
Returned(r, success, s) ==
  [ u |-> r.u, from |-> r.from, to |-> r.to, max_weight_to |-> r.max_weight_to,
    to_weight_at_call |-> r.to_weight_at_call, success |-> success,
    part_at_return |-> partID(s, r.u), overlapped |-> r.overlapped ]

\* entry of the second half of gainCacheUpdate (the part on block to)
EnterToPart(s, r) ==
  LET he == incidentEdges(r.u)[r.i]
  IN IF r.pin_count_in_to_part_after = 1
       THEN [ s |-> GainToFirst(s, he, r.to, edgeWeight(he)),
              r |-> [r EXCEPT !.pc = "release"] ]
     ELSE IF r.pin_count_in_to_part_after = 2
       THEN [ s |-> s, r |-> [r EXCEPT !.pc = "gain_to", !.j = 1] ]
     ELSE [ s |-> s, r |-> [r EXCEPT !.pc = "release"] ]

\* entry of gainCacheUpdate (the part on block from), right after delta_func
EnterFromPart(s, r) ==
  LET he == incidentEdges(r.u)[r.i]
  IN IF r.pin_count_in_from_part_after = 1
       THEN [ s |-> s, r |-> [r EXCEPT !.pc = "gain_from", !.j = 1] ]
     ELSE IF r.pin_count_in_from_part_after = 0
       THEN EnterToPart(GainFromEmptied(s, he, r.from, edgeWeight(he)), r)
     ELSE EnterToPart(s, r)

\* the call begins: from is the block of u, and add_fetch on the weight of to
StartCall(t, u, to, max_weight_to) ==
  /\ th[t].pc = "idle"
  /\ lifecycle = "partitioned"
  /\ ncalls < MaxConcCalls
  /\ partID(phg, u) # to
  /\ \A t2 \in Threads \ {t} : th[t2].pc = "idle" \/ th[t2].u # u
  /\ \A t2 \in Threads : t2 < t => th[t2].pc # "idle"
  /\ th' = [t2 \in Threads |->
       IF t2 = t
       THEN [ Idle EXCEPT !.pc = "sub_from", !.u = u, !.from = partID(phg, u),
                          !.to = to, !.max_weight_to = max_weight_to,
                          !.full = phg.is_gain_cache_initialized,
                          !.to_weight_at_call = phg.part_weights[to],
                          !.to_weight_after =
                             add_fetch(phg.part_weights[to], nodeWeight(u)),
                          !.overlapped = \E t3 \in Threads : th[t3].pc # "idle" ]
       ELSE IF th[t2].pc = "idle" THEN th[t2]
       ELSE [th[t2] EXCEPT !.overlapped = TRUE]]
  /\ phg' = [phg EXCEPT !.part_weights[to] = @ + nodeWeight(u)]
  /\ start' = IF ncalls = 0 THEN phg ELSE start
  /\ ncalls' = ncalls + 1
  /\ UNCHANGED << driver_vars, lifecycle, seq_vars, done >>

\* fetch_sub on the weight of from, then the balance test on the two locals
SubFrom(t) ==
  /\ th[t].pc = "sub_from"
  /\ LET r == th[t]
         from_weight_after == fetch_sub(phg.part_weights[r.from], nodeWeight(r.u))
     IN th' = [th EXCEPT ![t] =
          [r EXCEPT !.from_weight_after = from_weight_after,
                    !.pc = IF BalanceTest(r.to_weight_after, from_weight_after,
                                          r.max_weight_to)
                           THEN "set_part" ELSE "undo_to"]]
  /\ phg' = [phg EXCEPT !.part_weights[th[t].from] = @ - nodeWeight(th[t].u)]
  /\ UNCHANGED << driver_vars, lifecycle, ncalls, seq_vars, start, done >>

\* _part_ids[u] = to and report_success()
SetPart(t) ==
  /\ th[t].pc = "set_part"
  /\ phg' = [phg EXCEPT !.part_ids[th[t].u] = th[t].to]
  /\ IF nodeDegree(th[t].u) = 0
     THEN /\ th' = [th EXCEPT ![t] = Idle]
          /\ done' = Append(done, Returned(th[t], TRUE, phg'))
     ELSE /\ th' = [th EXCEPT ![t].pc = "acquire", ![t].i = 1]
          /\ done' = done
  /\ UNCHANGED << driver_vars, lifecycle, ncalls, seq_vars, start >>

\* a successful CAS on the ownership of the next incident edge, the decrement,
\* the increment and the call of delta_func
Acquire(t) ==
  /\ th[t].pc = "acquire"
  /\ LET r == th[t]
         he == incidentEdges(r.u)[r.i]
         a == AcquireAndCount(phg, he, r.from, r.to)
         r1 == [r EXCEPT
                  !.pin_count_in_from_part_after = a.pin_count_in_from_part_after,
                  !.pin_count_in_to_part_after = a.pin_count_in_to_part_after]
         n == IF r.full THEN EnterFromPart(a.s, r1)
              ELSE [ s |-> a.s, r |-> [r1 EXCEPT !.pc = "release"] ]
     IN /\ a.acquired
        /\ phg' = n.s
        /\ th' = [th EXCEPT ![t] = n.r]
  /\ UNCHANGED << driver_vars, lifecycle, ncalls, seq_vars, start, done >>

\* gainCacheUpdate, c_from = 1: the part id of the next pin is read
GainFrom(t) ==
  /\ th[t].pc = "gain_from"
  /\ LET r == th[t]
         he == incidentEdges(r.u)[r.i]
         g == GainFromPin(phg, pins(he)[r.j], r.from, edgeWeight(he))
         n == IF g.found \/ r.j = Len(pins(he))
              THEN EnterToPart(g.s, r)
              ELSE [ s |-> g.s, r |-> [r EXCEPT !.j = r.j + 1] ]
     IN /\ phg' = n.s
        /\ th' = [th EXCEPT ![t] = n.r]
  /\ UNCHANGED << driver_vars, lifecycle, ncalls, seq_vars, start, done >>

\* gainCacheUpdate, c_to = 2: the part id of the next pin is read
GainTo(t) ==
  /\ th[t].pc = "gain_to"
  /\ LET r == th[t]
         he == incidentEdges(r.u)[r.i]
     IN /\ phg' = GainToPin(phg, pins(he)[r.j], r.to, edgeWeight(he))
        /\ th' = [th EXCEPT ![t] =
             IF r.j = Len(pins(he)) THEN [r EXCEPT !.pc = "release"]
             ELSE [r EXCEPT !.j = r.j + 1]]
  /\ UNCHANGED << driver_vars, lifecycle, ncalls, seq_vars, start, done >>

\* mutant: the call returns after the first incident hyperedge
Release_ReturnsEarly(t) ==
  /\ th[t].pc = "release"
  /\ phg' = ReleaseOwnership(phg, incidentEdges(th[t].u)[th[t].i])
  /\ th' = [th EXCEPT ![t] = Idle]
  /\ done' = Append(done, Returned(th[t], TRUE, phg'))
  /\ UNCHANGED << driver_vars, lifecycle, ncalls, seq_vars, start >>

\* mutant: the loop goes on without giving the ownership back
Release_NoStore(t) ==
  /\ th[t].pc = "release"
  /\ IF th[t].i = nodeDegree(th[t].u)
     THEN /\ th' = [th EXCEPT ![t] = Idle]
          /\ done' = Append(done, Returned(th[t], TRUE, phg))
     ELSE /\ th' = [th EXCEPT ![t] =
               [@ EXCEPT !.pc = "acquire", !.i = @ + 1, !.j = 0,
                         !.pin_count_in_from_part_after = 0,
                         !.pin_count_in_to_part_after = 0]]
          /\ done' = done
  /\ UNCHANGED << driver_vars, phg, lifecycle, ncalls, seq_vars, start >>

\* the ownership is given back; the loop goes on or the call returns true
Release(t) ==
  /\ th[t].pc = "release"
  /\ phg' = ReleaseOwnership(phg, incidentEdges(th[t].u)[th[t].i])
  /\ IF th[t].i = nodeDegree(th[t].u)
     THEN /\ th' = [th EXCEPT ![t] = Idle]
          /\ done' = Append(done, Returned(th[t], TRUE, phg'))
     ELSE /\ th' = [th EXCEPT ![t] =
               [@ EXCEPT !.pc = "acquire", !.i = @ + 1, !.j = 0,
                         !.pin_count_in_from_part_after = 0,
                         !.pin_count_in_to_part_after = 0]]
          /\ done' = done
  /\ UNCHANGED << driver_vars, lifecycle, ncalls, seq_vars, start >>

\* the balance test failed: fetch_sub on the weight of to
UndoTo(t) ==
  /\ th[t].pc = "undo_to"
  /\ phg' = [phg EXCEPT !.part_weights[th[t].to] = @ - nodeWeight(th[t].u)]
  /\ th' = [th EXCEPT ![t].pc = "undo_from"]
  /\ UNCHANGED << driver_vars, lifecycle, ncalls, seq_vars, start, done >>

\* mutant: the weight of block from is not given back
UndoFrom_NoRestore(t) ==
  /\ th[t].pc = "undo_from"
  /\ th' = [th EXCEPT ![t] = Idle]
  /\ done' = Append(done, Returned(th[t], FALSE, phg))
  /\ UNCHANGED << driver_vars, phg, lifecycle, ncalls, seq_vars, start >>

\* fetch_add on the weight of from; the call returns false
UndoFrom(t) ==
  /\ th[t].pc = "undo_from"
  /\ phg' = [phg EXCEPT !.part_weights[th[t].from] = @ + nodeWeight(th[t].u)]
  /\ th' = [th EXCEPT ![t] = Idle]
  /\ done' = Append(done, Returned(th[t], FALSE, phg'))
  /\ UNCHANGED << driver_vars, lifecycle, ncalls, seq_vars, start >>

NextConc ==
  \/ \E u \in Nodes, p \in Blocks : SetOnlyNodePart(u, p)
  \/ \E u \in Nodes, p \in Blocks : SetNodePart(u, p)
  \/ InitializePartition
  \/ InitializeGainInformation
  \/ \E t \in Threads, u \in Nodes, to \in Blocks, m \in MaxWeightChoices :
        StartCall(t, u, to, m)
  \/ \E t \in Threads : SubFrom(t)
  \/ \E t \in Threads : SetPart(t)
  \/ \E t \in Threads : Acquire(t)
  \/ \E t \in Threads : GainFrom(t)
  \/ \E t \in Threads : GainTo(t)
  \/ \E t \in Threads : Release(t)
  \/ \E t \in Threads : UndoTo(t)
  \/ \E t \in Threads : UndoFrom(t)

SpecConc == Init /\ [][NextConc]_vars

\* the steps of a call other than the CAS on a hyperedge
StepOutsideCAS(t) ==
  \/ SubFrom(t)
  \/ SetPart(t)
  \/ GainFrom(t)
  \/ GainTo(t)
  \/ Release(t)
  \/ UndoTo(t)
  \/ UndoFrom(t)

\* the CAS of thread t can succeed: its call is at the CAS on a hyperedge
\* whose ownership flag is clear
CanAcquire(t) ==
  /\ th[t].pc = "acquire"
  /\ ~phg.pin_count_update_ownership[incidentEdges(th[t].u)[th[t].i]]

\* CanAcquire(t) is ENABLED <<Acquire(t)>>_vars
CanAcquireIsEnabled ==
  \A t \in Threads : CanAcquire(t) <=> ENABLED <<Acquire(t)>>_vars

\* weak fairness of Acquire(t), written out with CanAcquire(t) for
\* ENABLED <<Acquire(t)>>_vars
WeakFairAcquire(t) ==
  []<>(~CanAcquire(t)) \/ []<><<Acquire(t)>>_vars

\* concurrent calls under a fair scheduler: a thread whose next step stays
\* possible takes it; a CAS that fails is a step that changes nothing, so a
\* spinning thread is only promised the hyperedge if its flag stays clear
SpecConcFair ==
  /\ SpecConc
  /\ \A t \in Threads : WF_vars(StepOutsideCAS(t)) /\ WeakFairAcquire(t)

\* no changeNodePart call is in flight
Quiescent == \A t \in Threads : th[t].pc = "idle"

\* ------------------------------------------------------------------------
\* resetPartition (not thread-safe: called with no move in flight), at any
\* point of the object's life; nothing is done with the object afterwards
\* ------------------------------------------------------------------------

ResetPartition ==
  /\ lifecycle # "reset"
  /\ Quiescent
  /\ phg' = resetPartition(phg)
  /\ lifecycle' = "reset"
  /\ UNCHANGED << driver_vars, ncalls, seq_vars, conc_vars >>

NextReset ==
  \/ NextConc
  \/ ResetPartition

SpecReset == Init /\ [][NextReset]_vars

\* ------------------------------------------------------------------------
\* isBorderNode on a vertex of any degree: the vertex is given by its degree
\* and by the positions, in its list of incident hyperedges, of those with
\* connectivity 2; all others have connectivity 1
\* ------------------------------------------------------------------------

\* number of leading positions at which a cut hyperedge can sit (the last
\* position is one more)
MaxCutPositions == 4

StarDegrees ==
  { 0, 1, MaxCutPositions, HIGH_DEGREE_THRESHOLD, HIGH_DEGREE_THRESHOLD + 1 }

CutPositions(degree) ==
  { i \in (1 .. MaxCutPositions) \cup { degree } : 1 <= i /\ i <= degree }

\* the hypergraph object is not used: only the degree and the connectivities
InitBorder ==
  /\ InitObject
  /\ FmIdle
  /\ LibIdle
  /\ ex = NoExtract
  /\ rb = NoRollback
  /\ \E degree \in StarDegrees : \E cut \in SUBSET CutPositions(degree) :
       star = [ degree |-> degree, cut |-> cut, called |-> FALSE, result |-> FALSE ]

IsBorderNode ==
  /\ ~star.called
  /\ star' = [star EXCEPT
       !.called = TRUE,
       !.result = isBorderNodeOfDegree(star.degree,
                    [i \in 1 .. star.degree |-> IF i \in star.cut THEN 2 ELSE 1])]
  /\ UNCHANGED << object_vars, ex, rb, lib_vars, fm_vars >>

NextBorder == IsBorderNode

SpecBorder == InitBorder /\ [][NextBorder]_vars

\* ------------------------------------------------------------------------
\* extract, on partitioned hypergraphs over the vertices of the fixture whose
\* hyperedges are drawn from a few pin lists, a single-pin one among them;
\* the tracked pin counts and connectivities are those of the part ids
\* ------------------------------------------------------------------------

\* the invalid ids, each the all-ones value of its unsigned type (read as a
\* signed number, to stay within the integers of the model checker); no
\* valid id equals them
kInvalidHypernode == -1

kInvalidHyperedge == -1

\* number of hyperedges of the hypergraphs handed to extract
MaxExtractEdges == 2

\* mutant: a hyperedge with a single pin in the block is kept
Retained_SinglePin(pin_count_in_block, lambda, cut_net_splitting) ==
  pin_count_in_block > 0 /\ (cut_net_splitting \/ lambda = 1)

\* the test on a hyperedge, the same in both passes over the hyperedges
Retained(pin_count_in_block, lambda, cut_net_splitting) ==
  pin_count_in_block > 1 /\ (cut_net_splitting \/ lambda = 1)

\* edge_pins[i] are the pins of hyperedge i - 1, whose weight is i;
\* part[u + 1] is the block of u
extract(edge_pins, part, block, cut_net_splitting) ==
  LET HEs == 1 .. Len(edge_pins)
      InBlock(u) == part[u + 1] = block
      PinCount(i, b) ==
        Cardinality({ j \in 1 .. Len(edge_pins[i]) : part[edge_pins[i][j] + 1] = b })
      Lambda(i) == Cardinality({ b \in Blocks : PinCount(i, b) > 0 })
      Keep(i) == Retained(PinCount(i, block), Lambda(i), cut_net_splitting)
      hn_mapping == [u \in Nodes |->
        IF InBlock(u) THEN Cardinality({ m \in Nodes : m < u /\ InBlock(m) })
        ELSE kInvalidHypernode]
      he_mapping == [i \in HEs |->
        IF Keep(i) THEN Cardinality({ m \in HEs : m < i /\ Keep(m) })
        ELSE kInvalidHyperedge]
      num_hypernodes == Cardinality({ u \in Nodes : InBlock(u) })
      num_hyperedges == Cardinality({ i \in HEs : Keep(i) })
      Source(n) == CHOOSE i \in HEs : he_mapping[i] = n - 1
      PinsInBlock(i) == SelectSeq(edge_pins[i], InBlock)
  IN [ hn_mapping |-> hn_mapping,
       he_mapping |-> he_mapping,
       num_hypernodes |-> num_hypernodes,
       num_hyperedges |-> num_hyperedges,
       edge_vector |-> [n \in 1 .. num_hyperedges |->
          [j \in 1 .. Len(PinsInBlock(Source(n))) |->
             hn_mapping[PinsInBlock(Source(n))[j]]]],
       hyperedge_weight |-> [n \in 1 .. num_hyperedges |-> Source(n)],
       hypernode_weight |-> [n \in 1 .. num_hypernodes |->
          nodeWeight(CHOOSE u \in Nodes : hn_mapping[u] = n - 1)] ]

\* the pin lists a hyperedge of the argument can have
PinLists == { << 0 >>, << 0, 1 >>, << 1, 2 >>, << 0, 1, 2 >> }

InitExtract ==
  /\ InitObject
  /\ FmIdle
  /\ LibIdle
  /\ star = NoStar
  /\ rb = NoRollback
  /\ \E edge_pins \in [1 .. MaxExtractEdges -> PinLists], part \in [1 .. Cardinality(Nodes) -> Blocks] :
     \E block \in Blocks, cut_net_splitting \in BOOLEAN :
       ex = [ pins |-> edge_pins, part |-> part, block |-> block,
              cut_net_splitting |-> cut_net_splitting,
              called |-> FALSE, result |-> << >> ]

Extract ==
  /\ ~ex.called
  /\ ex' = [ex EXCEPT
       !.called = TRUE,
       !.result = extract(ex.pins, ex.part, ex.block, ex.cut_net_splitting)]
  /\ UNCHANGED << object_vars, star, rb, lib_vars, fm_vars >>

NextExtract == Extract

SpecExtract == InitExtract /\ [][NextExtract]_vars

\* ------------------------------------------------------------------------
\* Global rollback to the best prefix of a round's move log. The log holds
\* the moves in seq order, entry i having seq i; the gain of an entry is the
\* decrease of the objective the move brought.
\* ------------------------------------------------------------------------

\* length of the longest move log handed to the rollback
MaxLogLen == 5

\* cumulative gain of the first i moves
RECURSIVE CumulativeGain(_, _)
CumulativeGain(log, i) ==
  IF i = 0 THEN 0 ELSE CumulativeGain(log, i - 1) + log[i].gain

\* mutant: the longest prefix is kept whenever the whole log improves
BestPrefix_AllOrNothing(log) ==
  IF CumulativeGain(log, Len(log)) > 0 THEN Len(log) ELSE 0

\* the shortest prefix whose cumulative gain is the largest of all prefixes,
\* the empty prefix among them
BestPrefix(log) ==
  CHOOSE i \in 0 .. Len(log) :
    /\ \A j \in 0 .. Len(log) : CumulativeGain(log, j) <= CumulativeGain(log, i)
    /\ \A j \in 0 .. (i - 1) : CumulativeGain(log, j) < CumulativeGain(log, i)

\* the calls of the move primitive that take back the moves after the first
\* best ones, the latest move first
RECURSIVE Reverts(_, _)
Reverts(log, best) ==
  IF Len(log) <= best THEN << >>
  ELSE LET m == log[Len(log)]
       IN << [ node |-> m.node, from |-> m.to, to |-> m.from, seq |-> Len(log) ] >>
            \o Reverts(SubSeq(log, 1, Len(log) - 1), best)

globalRollbackToBestPrefix(log) ==
  LET best == BestPrefix(log)
  IN [ best_index |-> best,
       improvement |-> CumulativeGain(log, best),
       reverts |-> Reverts(log, best) ]

\* the gains a logged move can have
RollbackGains == { 3, -1, 2, -5, 4 }

\* the logs of at most MaxLogLen moves: move i is of vertex i - 1, out of
\* block (i - 1) % k into the next block
InitRollback ==
  /\ InitObject
  /\ FmIdle
  /\ LibIdle
  /\ star = NoStar
  /\ ex = NoExtract
  /\ \E n \in 0 .. MaxLogLen : \E gains \in [1 .. n -> RollbackGains] :
       rb = [ log |-> [i \in 1 .. n |->
                 [ node |-> i - 1, from |-> (i - 1) % k, to |-> i % k,
                   gain |-> gains[i] ]],
              called |-> FALSE, result |-> << >> ]

GlobalRollback ==
  /\ ~rb.called
  /\ rb' = [rb EXCEPT !.called = TRUE,
                       !.result = globalRollbackToBestPrefix(rb.log)]
  /\ UNCHANGED << object_vars, star, ex, lib_vars, fm_vars >>

NextRollback == GlobalRollback

SpecRollback == InitRollback /\ [][NextRollback]_vars

\* ------------------------------------------------------------------------
\* Properties
\* ------------------------------------------------------------------------

TypeOK ==
  /\ phg.part_ids \in [Nodes -> Blocks \cup {kInvalidPartition}]
  /\ \A e \in Edges, p \in Blocks : phg.pins_in_part[e][p] \in 0 .. edgeSize(e)

\* a quiescent state after two calls that overlapped in time
AfterOverlap ==
  /\ Quiescent
  /\ Len(done) >= 2
  /\ \A i \in 1 .. 2 : done[i].overlapped

\* C1 (P1, pin sum): in every quiescent state of an initialized partition,
\* after any sequential or concurrent changeNodePart calls on distinct
\* vertices, accepted or rejected, the pin counts of every hyperedge over all
\* blocks add up to the size of the hyperedge.
C1_PinSum ==
  (lifecycle = "partitioned" /\ Quiescent) =>
    \A e \in Edges :
      SumOver(Blocks, [p \in Blocks |-> pinCountInPart(phg, e, p)]) = edgeSize(e)

\* two overlapping calls have returned, one accepted and one rejected, and
\* pin counts have changed
C1_Witness ==
  /\ AfterOverlap
  /\ \E i, j \in 1 .. 2 : done[i].success /\ ~done[j].success
  /\ phg.pins_in_part # start.pins_in_part

\* C2 (P2, connectivity): in every quiescent state after initializePartition
\* or setNodePart and any changeNodePart calls, a block is in the connectivity
\* set of a hyperedge iff the hyperedge has a pin in it, and connectivity(e) is
\* the number of such blocks.
C2_Connectivity ==
  (lifecycle = "partitioned" /\ Quiescent) =>
    \A e \in Edges :
      /\ \A p \in Blocks :
           (p \in phg.connectivity_set[e]) <=> (pinCountInPart(phg, e, p) >= 1)
      /\ connectivity(phg, e) =
           Cardinality({ p \in Blocks : pinCountInPart(phg, e, p) >= 1 })

\* overlapping accepted moves have changed the connectivity of a hyperedge
C2_Witness ==
  /\ AfterOverlap
  /\ \A i \in 1 .. 2 : done[i].success
  /\ \E e \in Edges : connectivity(phg, e) # connectivity(start, e)

\* C3 (P3, block weight): in every quiescent state, after any sequential or
\* concurrent changeNodePart calls, accepted or rejected, the weight of every
\* block is the sum of the weights of the vertices assigned to it.
C3_BlockWeight ==
  (lifecycle = "partitioned" /\ Quiescent) =>
    \A p \in Blocks : partWeight(phg, p) = partWeightRecomputed(phg, p)

\* a rejected call overlapped an accepted one and the weights have changed
C3_Witness ==
  /\ AfterOverlap
  /\ \E i, j \in 1 .. 2 : ~done[i].success /\ done[j].success
  /\ phg.part_weights # start.part_weights
  /\ \E i \in 1 .. 2 : ~done[i].success /\ done[i].max_weight_to = MaxPartWeight

\* the gain cache exists and the latest call was an accepted full-update move
AfterFullMove ==
  /\ lifecycle = "partitioned"
  /\ phg.is_gain_cache_initialized
  /\ last.op = "full"
  /\ last.success

\* C4 (P4, benefit): with the gain cache initialized, after any sequence of
\* single-threaded full-update moves every vertex, the moved ones included,
\* has move_from_benefit equal to the weight of its incident hyperedges with
\* exactly one pin in its block.
C4_Benefit ==
  (lifecycle = "partitioned" /\ phg.is_gain_cache_initialized) =>
    \A u \in Nodes : moveFromBenefit(phg, u) = moveFromBenefitRecomputed(phg, u)

\* C5 (P5, penalty): with the gain cache initialized, after any sequence of
\* single-threaded full-update moves, move_to_penalty(v, p) is the weight of
\* the hyperedges incident to v with no pin in p, for every vertex v and every
\* block p, the block of v included.
C5_Penalty ==
  (lifecycle = "partitioned" /\ phg.is_gain_cache_initialized) =>
    \A u \in Nodes, p \in Blocks :
      moveToPenalty(phg, u, p) = moveToPenaltyRecomputed(phg, u, p)

\* two full-update moves in a row were accepted; the first gave a hyperedge
\* its first pin in the target block, the latest took the last pin of a
\* hyperedge out of the source block
C5_Witness ==
  /\ AfterFullMove
  /\ prev.op = "full" /\ prev.success
  /\ \E i \in 1 .. Len(prev.events) : prev.events[i].pin_count_in_to_part_after = 1
  /\ \E i \in 1 .. Len(last.events) : last.events[i].pin_count_in_from_part_after = 0

\* C6 (P6, gain correctness): an accepted full-update move of v to block to
\* changes km1 by exactly -(move_from_benefit(v) - move_to_penalty(v, to)),
\* both read right before the move.
C6_GainCorrect ==
  AfterFullMove =>
    km1(phg) - km1(last.pre) =
      0 - km1Gain(last.pre, last.u, last.from, last.to)

\* C7 (P7, round trip): an accepted full-update move of v from a to b followed
\* at once by an accepted move of v from b to a leaves part ids, part weights,
\* pin counts, connectivity sets and the whole gain cache as before the first.
C7_RoundTrip ==
  ( /\ AfterFullMove
    /\ prev.op = "full" /\ prev.success
    /\ last.u = prev.u /\ last.from = prev.to /\ last.to = prev.from ) =>
    phg = prev.pre

\* the four components of the partition that changeNodePart maintains
Partition(s) ==
  [ part_ids |-> s.part_ids, part_weights |-> s.part_weights,
    pins_in_part |-> s.pins_in_part, connectivity_set |-> s.connectivity_set ]

\* the returned calls moved pairwise distinct vertices
DistinctVertices ==
  \A i, j \in 1 .. Len(done) : i # j => done[i].u # done[j].u

\* the orders in which n calls can be run one at a time
Orders(n) ==
  { f \in [1 .. n -> 1 .. n] : \A i, j \in 1 .. n : i # j => f[i] # f[j] }

\* the calls of done run one at a time from state s in order f, from position
\* i on: the final state, and whether every call returned what it returned in
\* the concurrent run
RECURSIVE SerialRun(_, _, _)
SerialRun(s, f, i) ==
  IF i > Len(done) THEN [ s |-> s, same |-> TRUE ]
  ELSE LET d == done[f[i]]
           r == changeNodePart(s, d.u, d.from, d.to, d.max_weight_to,
                               s.is_gain_cache_initialized)
           rest == SerialRun(r.s, f, i + 1)
       IN [ s |-> rest.s,
            same |-> partID(s, d.u) = d.from /\ r.success = d.success /\ rest.same ]

\* the accepted calls of done run one at a time from state s, from position i
\* on, with no limit on the weight of the target block
RECURSIVE AcceptedRun(_, _)
AcceptedRun(s, i) ==
  IF i > Len(done) THEN [ s |-> s, accepted |-> TRUE ]
  ELSE IF ~done[i].success THEN AcceptedRun(s, i + 1)
  ELSE LET d == done[i]
           r == changeNodePart(s, d.u, d.from, d.to, kMaxWeight,
                               s.is_gain_cache_initialized)
           rest == AcceptedRun(r.s, i + 1)
       IN [ s |-> rest.s,
            accepted |-> partID(s, d.u) = d.from /\ r.success /\ rest.accepted ]

\* some serial order of the returned calls gives every call its concurrent
\* result and ends in the partition the concurrent run ended in
SerialOrderExists ==
  \E f \in Orders(Len(done)) :
    LET r == SerialRun(start, f, 1)
    IN r.same /\ Partition(r.s) = Partition(phg)

C9_BalanceRejection ==
  \A i \in 1 .. Len(done) :
    LET d == done[i]
        over == d.to_weight_at_call + nodeWeight(d.u) > d.max_weight_to
    IN /\ over => (~d.success /\ d.part_at_return = d.from)
       /\ d.success => ~over

\* a call was rejected for the weight of block to and another call with the
\* same finite limit was accepted
C9_Witness ==
  /\ \E i \in 1 .. Len(done) :
       /\ ~done[i].success
       /\ done[i].part_at_return = done[i].from
       /\ done[i].to_weight_at_call + nodeWeight(done[i].u) > done[i].max_weight_to
  /\ \E j \in 1 .. Len(done) :
       done[j].success /\ done[j].max_weight_to = MaxPartWeight

\* C10 (zero-out rejection): a call that would leave block from without
\* weight is rejected and the vertex is not moved.
C10_ZeroOutRejected ==
  ( /\ last.op # "none"
    /\ partWeight(last.pre, last.from) - nodeWeight(last.u) <= 0 ) =>
    (~last.success /\ partID(phg, last.u) = last.from)

\* C11 (rejected move leaves the state unchanged): when changeNodePart or
\* changeNodePartFullUpdate returns false, part ids, pin counts, connectivity
\* sets and gain cache are unchanged, the weights of from and to are back at
\* their values before the call, and neither report_success nor delta_func
\* was invoked.
C11_RejectedUnchanged ==
  [][ (ncalls' = ncalls + 1 /\ ~last'.success) =>
        /\ phg' = phg
        /\ last'.events = << >>
        /\ last'.calls = << >> ]_vars

\* a full-update call was rejected on a partition with a cut hyperedge and a
\* non-zero gain cache entry
C11_Witness ==
  /\ last.op = "full" /\ ~last.success
  /\ \E e \in Edges : connectivity(phg, e) = 2
  /\ \E u \in Nodes : moveFromBenefit(phg, u) > 0
  /\ partWeight(phg, last.to) + nodeWeight(last.u) > last.max_weight_to

\* the entries of a callback log made by function f, in order
RECURSIVE InvocationsOf(_, _)
InvocationsOf(calls, f) ==
  IF calls = << >> THEN << >>
  ELSE IF Head(calls).f = f
    THEN << Head(calls) >> \o InvocationsOf(Tail(calls), f)
  ELSE InvocationsOf(Tail(calls), f)

\* C12 (effects of a successful move): an accepted changeNodePart(v, from, to)
\* sets the part id of v to `to`, invokes report_success exactly once and
\* before any delta event, and invokes delta_func exactly once per incident
\* hyperedge of v, in their order and for no other hyperedge, with the pin
\* counts of from and to right after this move's decrement and increment;
\* with changeNodePartFullUpdate gainCacheUpdate runs exactly once per
\* hyperedge with the same arguments, and not at all otherwise.
C12_SuccessEffects ==
  [][ (ncalls' = ncalls + 1 /\ last'.success) =>
        LET c == last'
            hes == incidentEdges(c.u)
            deltas == InvocationsOf(c.calls, "delta_func")
            updates == InvocationsOf(c.calls, "gainCacheUpdate")
        IN /\ partID(phg', c.u) = c.to
           /\ Len(InvocationsOf(c.calls, "report_success")) = 1
           /\ c.calls[1].f = "report_success"
           /\ Len(deltas) = nodeDegree(c.u)
           /\ Len(c.events) = nodeDegree(c.u)
           /\ \A i \in 1 .. Len(deltas) :
                /\ deltas[i].he = hes[i]
                /\ deltas[i].pin_count_in_from_part_after =
                     pinCountInPart(phg, hes[i], c.from) - 1
                /\ deltas[i].pin_count_in_to_part_after =
                     pinCountInPart(phg, hes[i], c.to) + 1
                /\ c.events[i] = DeltaEvent(hes[i],
                                   pinCountInPart(phg', hes[i], c.from),
                                   pinCountInPart(phg', hes[i], c.to))
           /\ IF c.op = "full"
              THEN /\ Len(updates) = Len(deltas)
                   /\ \A i \in 1 .. Len(deltas) :
                        updates[i] = [deltas[i] EXCEPT !.f = "gainCacheUpdate"]
              ELSE updates = << >> ]_vars

\* an accepted full-update move of a vertex with two incident hyperedges: one
\* report_success, two delta events and two gain cache updates
C12_Witness ==
  /\ last.op = "full" /\ last.success
  /\ nodeDegree(last.u) = 2
  /\ Len(last.calls) = 5

\* thread t is between its successful CAS on a hyperedge and the release
Holding(t) == th[t].pc \in { "gain_from", "gain_to", "release" }

\* the hyperedge the call of thread t is working on
CurrentEdge(t) == incidentEdges(th[t].u)[th[t].i]

\* C13 (edge-lock mutual exclusion): for every hyperedge at most one thread
\* is between the successful CAS on its ownership flag and the release, the
\* flag is set all that time, and the pin counts of from and to that the
\* holder produced are not changed by another move until it releases.
C13_MutualExclusion ==
  /\ \A t1, t2 \in Threads :
       (t1 # t2 /\ Holding(t1) /\ Holding(t2)) => CurrentEdge(t1) # CurrentEdge(t2)
  /\ \A t \in Threads :
       Holding(t) =>
         /\ phg.pin_count_update_ownership[CurrentEdge(t)]
         /\ pinCountInPart(phg, CurrentEdge(t), th[t].from) =
              th[t].pin_count_in_from_part_after
         /\ pinCountInPart(phg, CurrentEdge(t), th[t].to) =
              th[t].pin_count_in_to_part_after

\* one thread holds a hyperedge while another thread's move is spinning on
\* the same hyperedge
C13_Witness ==
  \E t1, t2 \in Threads :
    /\ t1 # t2
    /\ Holding(t1)
    /\ th[t2].pc = "acquire"
    /\ CurrentEdge(t2) = CurrentEdge(t1)

\* the hyperedges whose ownership flag is set
OwnedEdges == { e \in Edges : phg.pin_count_update_ownership[e] }

\* C14 (no nested edge locks): in every reachable state a thread owns at most
\* one hyperedge: the flags that are set are exactly the current hyperedges of
\* the threads inside a critical section, one per such thread, so a move has
\* released each incident hyperedge before it tries the next.
C14_NoNestedLocks ==
  /\ OwnedEdges = { CurrentEdge(t) : t \in { t2 \in Threads : Holding(t2) } }
  /\ Cardinality(OwnedEdges) = Cardinality({ t \in Threads : Holding(t) })

\* a move owns its second incident hyperedge, after releasing the first,
\* while another move owns a hyperedge too
C14_Witness ==
  \E t1, t2 \in Threads :
    /\ t1 # t2
    /\ Holding(t1) /\ th[t1].i = 2
    /\ Holding(t2)
    /\ Cardinality(OwnedEdges) = 2

\* C15 (progress of moves): under fair scheduling of the threads every
\* changeNodePart call eventually returns: every spin on the ownership of a
\* hyperedge ends and no set of concurrent moves deadlocks.
C15_Progress ==
  \A t \in Threads : (th[t].pc # "idle") ~> (th[t].pc = "idle")

\* a call that had to spin on a hyperedge owned by another move has returned
\* after working on both of its incident hyperedges
C15_Witness ==
  /\ Quiescent
  /\ Len(done) = 2
  /\ \A i \in 1 .. 2 : done[i].success /\ done[i].overlapped
  /\ \E i \in 1 .. 2 : nodeDegree(done[i].u) = 2
  /\ phg.is_gain_cache_initialized

\* C16 (balance under concurrency): if every block starts with a weight of at
\* most MaxPartWeight and every changeNodePart call passes MaxPartWeight as
\* max_weight_to, then in every quiescent state after concurrent calls,
\* accepted or rejected, every block weighs at most MaxPartWeight.
C16_BalancePreserved ==
  ( /\ Quiescent
    /\ done # << >>
    /\ \A p \in Blocks : partWeight(start, p) <= MaxPartWeight
    /\ \A i \in 1 .. Len(done) : done[i].max_weight_to = MaxPartWeight ) =>
    \A p \in Blocks : partWeight(phg, p) <= MaxPartWeight

\* C17 (gain cache under concurrency): once concurrent full-update calls of
\* changeNodePart on distinct vertices have all returned, move_from_benefit(v)
\* and move_to_penalty(v, p) equal the recomputed values for every vertex v
\* and every block p other than the block of v.
C17_GainCacheQuiescent ==
  ( /\ Quiescent
    /\ lifecycle = "partitioned"
    /\ phg.is_gain_cache_initialized
    /\ done # << >>
    /\ \A i, j \in 1 .. Len(done) : i # j => done[i].u # done[j].u ) =>
    \A v \in Nodes :
      /\ moveFromBenefit(phg, v) = moveFromBenefitRecomputed(phg, v)
      /\ \A p \in Blocks \ {partID(phg, v)} :
           moveToPenalty(phg, v, p) = moveToPenaltyRecomputed(phg, v, p)

\* C18 (gain cache initialization): the step initializeGainInformation sets
\* is_gain_cache_initialized and leaves move_from_benefit(v) and, for every
\* block p, move_to_penalty(v, p) equal to the recomputed values, whatever
\* the order of the vertices, whichever thread handles which vertex, and
\* whatever an earlier vertex left in a thread's accumulator; the combination
\* used for a vertex above the degree threshold stores the same values for
\* every split of its incident hyperedges among the threads.
C18_GainCacheInitialized ==
  [][ (~phg.is_gain_cache_initialized /\ phg'.is_gain_cache_initialized) =>
        /\ \A v \in Nodes :
             /\ moveFromBenefit(phg', v) = moveFromBenefitRecomputed(phg', v)
             /\ \A p \in Blocks :
                  moveToPenalty(phg', v, p) = moveToPenaltyRecomputed(phg', v, p)
        /\ \A v \in Nodes, edge_owner \in [Edges -> Threads] :
             LET zero == [t \in Threads |-> [p \in Blocks |-> 0]]
                 h == HighDegreeVertex(phg, v, edge_owner, zero)
             IN /\ h.ets_mtp = zero
                /\ moveFromBenefit(h.s, v) = moveFromBenefitRecomputed(phg, v)
                /\ \A p \in Blocks :
                     moveToPenalty(h.s, v, p) = moveToPenaltyRecomputed(phg, v, p)
    ]_vars

\* the gain cache was initialized on a partition with a cut hyperedge and no
\* full-update move has run since; some benefit and some penalty are positive
C18_Witness ==
  /\ lifecycle = "partitioned"
  /\ phg.is_gain_cache_initialized
  /\ last.op # "full"
  /\ \E e \in Edges : connectivity(phg, e) = 2
  /\ \E v \in Nodes : moveFromBenefit(phg, v) > 0
  /\ \E v \in Nodes, p \in Blocks : moveToPenalty(phg, v, p) > 0

\* C19 (reset): after reset_partition every vertex has part id
\* kInvalidPartition, every block has weight 0, every pin count is 0 and
\* every connectivity set is empty, whatever the partition was before and
\* whatever calls of changeNodePart had run on it. (The hypergraph itself is
\* not a variable: resetPartition has no access path that writes it.)
C19_ResetClearsPartition ==
  lifecycle = "reset" =>
    /\ \A u \in Nodes : partID(phg, u) = kInvalidPartition
    /\ \A p \in Blocks : partWeight(phg, p) = 0
    /\ \A e \in Edges, p \in Blocks : pinCountInPart(phg, e, p) = 0
    /\ \A e \in Edges : phg.connectivity_set[e] = {}

\* resetPartition ran on a partition whose gain cache was initialized after
\* two concurrent calls, one of them accepted, the partition at the first
\* call having a cut hyperedge
C19_Witness ==
  /\ lifecycle = "reset"
  /\ phg.is_gain_cache_initialized
  /\ Len(done) = 2
  /\ \E i \in 1 .. Len(done) : done[i].success
  /\ \E e \in Edges : Cardinality(start.connectivity_set[e]) = 2

\* setOnlyNodePart(u, a[u]) for the vertices us, one after the other
RECURSIVE SetOnlyAll(_, _, _)
SetOnlyAll(s, a, us) ==
  IF us = << >> THEN s
  ELSE SetOnlyAll(setOnlyNodePart(s, Head(us), a[Head(us)]), a, Tail(us))

\* the second path for assignment a: setOnlyNodePart for every vertex of a
\* newly constructed object, then initializePartition
ViaInitializePartition(a) ==
  initializePartition(
    SetOnlyAll(Constructed, a, [i \in 1 .. Cardinality(Nodes) |-> i - 1]))

\* C20 (two assignment paths agree): for every assignment of all vertices and
\* every order of the calls, the step that completes the assignment, be it the
\* last set_node_part or the initialize_partition after the last
\* set_only_node_part, leaves the part ids, block weights, pin counts and
\* connectivity sets that set_only_node_part for every vertex followed by
\* initialize_partition gives for that assignment.
C20_AssignmentPathsAgree ==
  [][ (lifecycle \in { "new", "set_full", "set_only" } /\ lifecycle' = "partitioned") =>
        Partition(phg') = Partition(ViaInitializePartition(phg'.part_ids)) ]_vars

\* a complete assignment that uses both blocks and cuts a hyperedge, before
\* any move and before the gain cache is set up
C20_Witness ==
  /\ lifecycle = "partitioned"
  /\ ncalls = 0
  /\ ~phg.is_gain_cache_initialized
  /\ \A p \in Blocks : partWeight(phg, p) > 0
  /\ \E e \in Edges : phg.connectivity_set[e] = Blocks
  /\ \E e \in Edges : Cardinality(phg.connectivity_set[e]) = 1

ExPinsInBlock(i) ==
  { ex.pins[i][j] : j \in { n \in 1 .. Len(ex.pins[i]) : ex.part[ex.pins[i][n] + 1] = ex.block } }

ExAllPins(i) == { ex.pins[i][j] : j \in 1 .. Len(ex.pins[i]) }

ExKept(i) == ex.result.he_mapping[i] # kInvalidHyperedge

\* what C22 says of the vertex mapping and of the pins of the hyperedges kept
ExMappingAndPins ==
  /\ \A u \in Nodes : ex.part[u + 1] # ex.block => ex.result.hn_mapping[u] = kInvalidHypernode
  /\ { ex.result.hn_mapping[u] : u \in { m \in Nodes : ex.part[m + 1] = ex.block } }
       = 0 .. (ex.result.num_hypernodes - 1)
  /\ ex.result.num_hypernodes = Cardinality({ m \in Nodes : ex.part[m + 1] = ex.block })
  /\ Len(ex.result.edge_vector) = Cardinality({ i \in 1 .. Len(ex.pins) : ExKept(i) })
  /\ \A i \in 1 .. Len(ex.pins) : ExKept(i) =>
       LET e == ex.result.edge_vector[ex.result.he_mapping[i] + 1]
       IN /\ Len(e) = Cardinality(ExPinsInBlock(i))
          /\ { e[j] : j \in 1 .. Len(e) }
               = { ex.result.hn_mapping[u] : u \in ExPinsInBlock(i) }

\* C22 as stated (extract_block): with cut_net_splitting a hyperedge is kept
\* iff it has at least 2 pins in block p, and its pins in the extracted
\* hypergraph are the images of its pins in p; without, a hyperedge is kept
\* iff all of its pins lie in p; the mapping sends the vertices of p
\* one-to-one onto 0..n_p-1 and every other vertex to the invalid id.
C22_ExtractRetention ==
  ex.called =>
    /\ ExMappingAndPins
    /\ \A i \in 1 .. Len(ex.pins) :
         ExKept(i) <=> IF ex.cut_net_splitting
                       THEN Cardinality(ExPinsInBlock(i)) >= 2
                       ELSE ExPinsInBlock(i) = ExAllPins(i)

\* C22 as amended: without cut_net_splitting a hyperedge is kept iff all of
\* its pins lie in p and it has at least 2 pins; the rest as stated.
C22_ExtractRetentionTwoPins ==
  ex.called =>
    /\ ExMappingAndPins
    /\ \A i \in 1 .. Len(ex.pins) :
         ExKept(i) <=> IF ex.cut_net_splitting
                       THEN Cardinality(ExPinsInBlock(i)) >= 2
                       ELSE /\ ExPinsInBlock(i) = ExAllPins(i)
                            /\ Cardinality(ExAllPins(i)) >= 2

\* extract with cut_net_splitting kept a hyperedge with a pin outside the
\* block and dropped the hyperedge before it, so ids of both kinds were
\* compacted
C22_Witness ==
  /\ ex.called
  /\ ex.cut_net_splitting
  /\ ~ExKept(1)
  /\ ExKept(2)
  /\ ExPinsInBlock(2) # ExAllPins(2)
  /\ ex.result.num_hypernodes = 2

\* ------------------------------------------------------------------------
\* C24: the global rollback keeps the best prefix of the move log
\* ------------------------------------------------------------------------

\* the seq numbers of the reverted moves, in the order of the reverts
RevertedSeqs(r) == [i \in 1 .. Len(r) |-> r[i].seq]

\* the log of the five moves with gains +3, -1, +2, -5, +4
ExampleLog(log) ==
  /\ Len(log) = 5
  /\ [i \in 1 .. 5 |-> log[i].gain] = << 3, -1, 2, -5, 4 >>

FmK == 4

FmBlocks == 0 .. (FmK - 1)

\* std::numeric_limits<HyperedgeWeight>::max() and ::min()
HyperedgeWeightMax == 2147483647

HyperedgeWeightMin == (-2147483647) - 1

\* number of moves of vertices that are no neighbours of v between the
\* insertion of v and the update of its gain
MaxGainMoves == 1

\* mutant: the balance constraint of the target block is not tested
Better_NoBalance(v, i, acc) ==
  \/ v.move_to_penalty[i] < acc.to_penalty
  \/ /\ v.move_to_penalty[i] = acc.to_penalty
     /\ v.part_weights[i] < acc.best_to_weight

\* the test of the loop body: block i replaces the best block found so far
Better(v, i, acc) ==
  /\ \/ v.move_to_penalty[i] < acc.to_penalty
     \/ /\ v.move_to_penalty[i] = acc.to_penalty
        /\ v.part_weights[i] < acc.best_to_weight
  /\ v.part_weights[i] + v.wu <= v.max_part_weights[i]

\* the loop over the candidate blocks, in the order of parts
RECURSIVE ScanParts(_, _, _, _)
ScanParts(v, parts, j, acc) ==
  IF j > Len(parts) THEN acc
  ELSE LET i == parts[j]
       IN IF i # v.part /\ i # kInvalidPartition /\ Better(v, i, acc)
          THEN ScanParts(v, parts, j + 1,
                 [ to |-> i, to_penalty |-> v.move_to_penalty[i],
                   best_to_weight |-> v.part_weights[i] ])
          ELSE ScanParts(v, parts, j + 1, acc)

\* the locals before the loop
ScanStart(v) ==
  [ to |-> kInvalidPartition, to_penalty |-> HyperedgeWeightMax,
    best_to_weight |-> v.part_weights[v.part] - v.wu ]

\* the pair returned after the loop
ScanResult(v, acc) ==
  [ to |-> acc.to,
    gain |-> IF acc.to # kInvalidPartition
             THEN v.move_from_benefit - acc.to_penalty
             ELSE HyperedgeWeightMin ]

bestDestinationBlock(v) ==
  ScanResult(v, ScanParts(v, [j \in 1 .. FmK |-> j - 1], 1, ScanStart(v)))

bestOfThree(v, parts) == ScanResult(v, ScanParts(v, parts, 1, ScanStart(v)))

\* mutant: the designated target is not among the candidates
updateGain_WithoutTarget(v, designatedTargetV, move) ==
  IF FmK < 4 \/ designatedTargetV = move.from \/ designatedTargetV = move.to
  THEN bestDestinationBlock(v)
  ELSE bestOfThree(v, << move.from, move.to >>)

\* the new target and the new key of v
updateGain(v, designatedTargetV, move) ==
  IF FmK < 4 \/ designatedTargetV = move.from \/ designatedTargetV = move.to
  THEN bestDestinationBlock(v)
  ELSE bestOfThree(v, << designatedTargetV, move.from, move.to >>)

\* the vertex before it is inserted into the priority queue of its block;
\* moved_weight is the weight of the vertices whose moves change the part
\* weights
InitGain ==
  /\ InitObject
  /\ DsIdle
  /\ fm = NoRefine /\ wk = NoWorkers /\ pq = NoPQ
  /\ \E pv \in FmBlocks, benefit \in 0 .. 1, limit \in 2 .. 3 :
     \E penalty \in [FmBlocks -> 0 .. 1], weights \in [FmBlocks -> 1 .. 3] :
       /\ penalty[pv] = 0
       /\ bd = [ part |-> pv, wu |-> 1, moved_weight |-> 1,
                 move_from_benefit |-> benefit,
                 move_to_penalty |-> penalty, part_weights |-> weights,
                 max_part_weights |-> [i \in FmBlocks |-> limit],
                 op |-> "none", target |-> kInvalidPartition,
                 key |-> 0, designated |-> kInvalidPartition,
                 move |-> [ from |-> 0, to |-> 0 ], moves |-> 0 ]

\* insertIntoPQ(phg, v): the first evaluation of v by its search
InsertIntoPQ ==
  /\ bd.op = "none"
  /\ LET r == bestDestinationBlock(bd)
     IN bd' = [bd EXCEPT !.op = "insertIntoPQ", !.target = r.to, !.key = r.gain]
  /\ UNCHANGED << object_vars, ds_vars, fm, wk, pq >>

\* the part weights after a vertex of weight w has gone from block a to b
MovedWeights(v, a, b, w) ==
  [v.part_weights EXCEPT ![a] = @ - w, ![b] = @ + w]

\* a vertex that shares no hyperedge with v is moved from block a to block b,
\* by this search or by another one: no gain of v is updated
OtherMove(a, b) ==
  /\ bd.op \in { "insertIntoPQ", "otherMove" }
  /\ bd.moves < MaxGainMoves
  /\ a # b
  /\ bd.part_weights[a] >= bd.moved_weight + (IF a = bd.part THEN bd.wu ELSE 0)
  /\ bd.part_weights[b] + bd.moved_weight <= bd.max_part_weights[b]
  /\ bd' = [bd EXCEPT !.op = "otherMove", !.moves = @ + 1,
                       !.part_weights = MovedWeights(bd, a, b, bd.moved_weight)]
  /\ UNCHANGED << object_vars, ds_vars, fm, wk, pq >>

\* the search moves a neighbour of v from block a to block b (the delta gain
\* rules may raise the penalty of v for a, lower it for b and change its
\* benefit) and calls updateGain(phg, v, move)
UpdateGain(a, b) ==
  /\ bd.op \in { "insertIntoPQ", "otherMove" }
  /\ a # b
  /\ bd.part_weights[a] >= bd.moved_weight + (IF a = bd.part THEN bd.wu ELSE 0)
  /\ bd.part_weights[b] + bd.moved_weight <= bd.max_part_weights[b]
  /\ \E up \in 0 .. 1, down \in 0 .. 1, benefit \in 0 .. 1 :
       /\ down <= bd.move_to_penalty[b]
       /\ LET v == [bd EXCEPT
                     !.part_weights = MovedWeights(bd, a, b, bd.moved_weight),
                     !.move_to_penalty =
                        [i \in FmBlocks |->
                           IF i = bd.part THEN 0
                           ELSE IF i = a THEN bd.move_to_penalty[i] + up
                           ELSE IF i = b THEN bd.move_to_penalty[i] - down
                           ELSE bd.move_to_penalty[i]],
                     !.move_from_benefit = benefit]
              move == [ from |-> a, to |-> b ]
              r == updateGain(v, bd.target, move)
          IN bd' = [v EXCEPT !.op = "updateGain",
                             !.designated = bd.target, !.move = move,
                             !.target = r.to, !.key = r.gain]
  /\ UNCHANGED << object_vars, ds_vars, fm, wk, pq >>

NextGain ==
  \/ InsertIntoPQ
  \/ \E a \in FmBlocks, b \in FmBlocks : OtherMove(a, b)
  \/ \E a \in FmBlocks, b \in FmBlocks : UpdateGain(a, b)

SpecGain == InitGain /\ [][NextGain]_vars

\* the blocks v can be moved into within the balance constraint
FeasibleBlocks(v) ==
  { b \in FmBlocks : b # v.part /\ v.part_weights[b] + v.wu <= v.max_part_weights[b] }

\* C26: bestDestinationBlock returns, among the blocks other than the
\* block of the vertex that can take its weight within max_part_weights, a
\* block of least moveToPenalty and, among those, of least part weight,
\* with gain = moveFromBenefit - moveToPenalty of that block; when no block
\* can take the vertex it returns kInvalidPartition and the least gain value.
C26_BestDestinationBlock ==
  bd.op = "insertIntoPQ" =>
    IF FeasibleBlocks(bd) = {}
    THEN bd.target = kInvalidPartition /\ bd.key = HyperedgeWeightMin
    ELSE /\ bd.target \in FeasibleBlocks(bd)
         /\ \A b \in FeasibleBlocks(bd) :
              \/ bd.move_to_penalty[bd.target] < bd.move_to_penalty[b]
              \/ /\ bd.move_to_penalty[bd.target] = bd.move_to_penalty[b]
                 /\ bd.part_weights[bd.target] <= bd.part_weights[b]
         /\ bd.key = bd.move_from_benefit - bd.move_to_penalty[bd.target]

\* a vertex has been evaluated for which a block of least penalty cannot
\* take it, and two blocks that can are tied on the penalty and differ in
\* weight
C26_Witness ==
  /\ bd.op = "insertIntoPQ"
  /\ bd.target # kInvalidPartition
  /\ \E b \in FmBlocks \ (FeasibleBlocks(bd) \cup { bd.part }) :
       bd.move_to_penalty[b] < bd.move_to_penalty[bd.target]
  /\ \E b \in FeasibleBlocks(bd) :
       /\ bd.move_to_penalty[b] = bd.move_to_penalty[bd.target]
       /\ bd.part_weights[b] > bd.part_weights[bd.target]

\* no block could take the vertex that has been evaluated
C26_Witness_NoneFeasible ==
  /\ bd.op = "insertIntoPQ"
  /\ FeasibleBlocks(bd) = {}
  /\ bd.target = kInvalidPartition

\* ------------------------------------------------------------------------
\* C29: updateGain through bestOfThree against the full evaluation
\* ------------------------------------------------------------------------

\* updateGain has just taken the branch of bestOfThree
ThroughBestOfThree ==
  /\ bd.op = "updateGain"
  /\ FmK >= 4
  /\ bd.designated # bd.move.from
  /\ bd.designated # bd.move.to

SecondPinEdges(x) ==
  { e \in Edges :
      /\ \E i \in 1 .. Len(pins(e)) : pins(e)[i] = last.u
      /\ \E i \in 1 .. Len(pins(e)) : pins(e)[i] = x
      /\ pinCountInPart(phg, e, last.to) = 2 }

\* C27: an accepted full-update move changes the benefit of the vertices of
\* the target block by the rule for c_to = 2 only: every pin of the target
\* block other than the moved vertex loses w(e) for each hyperedge e of the
\* moved vertex that now has two pins there, and the benefit of the moved
\* vertex itself is left as it was.
C27_SecondPinRule ==
  AfterFullMove =>
    \A x \in Nodes :
      partID(phg, x) = last.to =>
        moveFromBenefit(phg, x) - moveFromBenefit(last.pre, x) =
          IF x = last.u THEN 0
          ELSE 0 - SumOver(SecondPinEdges(x), [e \in Edges |-> edgeWeight(e)])

\* ------------------------------------------------------------------------
\* C28: the delta rule for the last remaining pin, under concurrency
\* ------------------------------------------------------------------------

\* thread t reads the part id of the next pin in its scan for c_from = 1
ScanFromStep(t) ==
  /\ th[t].pc = "gain_from"
  /\ th'[t].pc # "gain_from" \/ th'[t].j # th[t].j

\* the call of thread t2 has written the new part id of its vertex and has
\* not yet updated the pin counts of hyperedge he: its vertex is on its way
\* out of one block of he and into another
MidMove(t2, he) ==
  /\ th[t2].pc \in { "acquire", "gain_from", "gain_to", "release" }
  /\ \E i \in 1 .. nodeDegree(th[t2].u) :
       /\ incidentEdges(th[t2].u)[i] = he
       /\ i > th[t2].i \/ (i = th[t2].i /\ th[t2].pc = "acquire")

\* C28: whenever gainCacheUpdate scans the pins of a hyperedge e for
\* c_from = 1, exactly one pin of e has part id from, and the pin that
\* receives the increment of w(e) is not the vertex of a call of another
\* thread that has written its part id and has not yet updated the pin
\* counts of e, that is, no vertex on its way into or out of block from.
C28_LastPinRule ==
  [][ \A t \in Threads :
        ScanFromStep(t) =>
          LET r == th[t]
              he == incidentEdges(r.u)[r.i]
              x == pins(he)[r.j]
          IN /\ Cardinality({ y \in PinSet(he) : partID(phg, y) = r.from }) = 1
             /\ phg'.move_from_benefit # phg.move_from_benefit =>
                  \A t2 \in Threads \ { t } : ~(th[t2].u = x /\ MidMove(t2, he)) ]_vars

\* ------------------------------------------------------------------------
\* findNextMove of a localized search. A priority queue is the set of its
\* << element, key >> pairs; top is an element of greatest key. The
\* partitioned hypergraph is given by what findNextMove reads of it: the
\* pair bestDestinationBlock returns for each vertex, which the moves of
\* other searches change while the search runs.
\* ------------------------------------------------------------------------

\* number of times the moves of other searches change a gain during the
\* calls of findNextMove
MaxPQMoves == 1

\* the keys under which a vertex can be stored
PQKeys == { HyperedgeWeightMin, 0, 1 }

contains(q, x) == \E e \in q : e[1] = x

keyOf(q, x) == (CHOOSE e \in q : e[1] = x)[2]

topKey(q) == CHOOSE g \in { e[2] : e \in q } : \A e \in q : e[2] <= g

\* the elements top() can return
Tops(q) == { e[1] : e \in { d \in q : d[2] = topKey(q) } }

remove(q, x) == { e \in q : e[1] # x }

adjustKey(q, x, g) == remove(q, x) \cup { << x, g >> }

\* updateBlock(i) for every block i
updatePQs(vertexPQs) ==
  { << i, topKey(vertexPQs[i]) >> : i \in { b \in FmBlocks : vertexPQs[b] # {} } }

\* mutant: every re-evaluated vertex is accepted
Accepts_Always(gain, estimated_gain) == TRUE

\* the test that accepts the re-evaluated vertex
Accepts(gain, estimated_gain) == gain >= estimated_gain

\* mutant: the key of the block is left as it was after a retry
RetryBlockPQ_Stale(blockPQ, vertexPQ, from) == blockPQ

\* the block queue after the top vertex of block from has been re-keyed
RetryBlockPQ(blockPQ, vertexPQ, from) ==
  IF topKey(vertexPQ) # keyOf(blockPQ, from)
  THEN adjustKey(blockPQ, from, topKey(vertexPQ))
  ELSE blockPQ

\* one pass of the loop of findNextMove with from and u the tops of the
\* queues and r the pair bestDestinationBlock(phg, u) returns
findNextMoveIteration(s, from, u, r) ==
  LET estimated_gain == topKey(s.vertexPQs[from])
  IN IF Accepts(r.gain, estimated_gain)
     THEN [s EXCEPT
            !.pc = "returned", !.result = TRUE,
            !.m = [ node |-> u, to |-> r.to, from |-> from, gain |-> r.gain ],
            !.stored = keyOf(s.vertexPQs[from], u),
            !.held = { b \in FmBlocks : contains(s.vertexPQs[b], u) },
            !.step = "accept",
            !.vertexPQs[from] = remove(@, u)]
     ELSE [s EXCEPT
            !.step = "retry", !.retries = @ + 1,
            !.m = [ node |-> u, to |-> r.to, from |-> from, gain |-> r.gain ],
            !.stored = keyOf(s.vertexPQs[from], u),
            !.vertexPQs[from] = adjustKey(@, u, r.gain),
            !.blockPQ = RetryBlockPQ(@, adjustKey(s.vertexPQs[from], u, r.gain), from)]

\* the pairs bestDestinationBlock can return for a vertex of block p
FreshResults(p) ==
  { [ to |-> kInvalidPartition, gain |-> HyperedgeWeightMin ],
    [ to |-> (p + 1) % FmK, gain |-> 0 ], [ to |-> (p + 1) % FmK, gain |-> 1 ] }

\* a search after insertIntoPQ of some vertices and updatePQs
InitPQ ==
  /\ InitObject
  /\ DsIdle
  /\ fm = NoRefine /\ wk = NoWorkers /\ bd = NoGain
  /\ \E inserted \in SUBSET Nodes, part \in [Nodes -> 0 .. 1] :
     \E keys \in [inserted -> PQKeys] :
     \E fresh \in [Nodes -> UNION { FreshResults(p) : p \in 0 .. 1 }] :
       /\ \A v \in Nodes : fresh[v] \in FreshResults(part[v])
       /\ LET vertexPQs == [b \in FmBlocks |->
                 { << v, keys[v] >> : v \in { x \in inserted : part[x] = b } }]
          IN pq = [ vertexPQs |-> vertexPQs, blockPQ |-> updatePQs(vertexPQs),
                    part |-> part, fresh |-> fresh, pc |-> "idle",
                    empty_on_entry |-> FALSE, result |-> FALSE,
                    m |-> [ node |-> 0, to |-> 0, from |-> 0, gain |-> 0 ],
                    stored |-> 0, held |-> {}, step |-> "none",
                    retries |-> 0, moves |-> 0 ]

\* findNextMove is called: it returns false if the block queue is empty
FindNextMove ==
  /\ pq.pc = "idle"
  /\ pq' = [pq EXCEPT !.empty_on_entry = (pq.blockPQ = {}),
                       !.pc = IF pq.blockPQ = {} THEN "returned" ELSE "loop",
                       !.result = FALSE, !.step = "none", !.retries = 0]
  /\ UNCHANGED << object_vars, ds_vars, fm, wk, bd >>

\* one pass of the loop
FindNextMoveIteration ==
  /\ pq.pc = "loop"
  /\ \E from \in Tops(pq.blockPQ) : \E u \in Tops(pq.vertexPQs[from]) :
       pq' = findNextMoveIteration(pq, from, u, pq.fresh[u])
  /\ UNCHANGED << object_vars, ds_vars, fm, wk, bd >>

\* the search goes on after a returned move: updatePQs, then the next call
UpdatePQs ==
  /\ pq.pc = "returned"
  /\ pq.result
  /\ pq' = [pq EXCEPT !.blockPQ = updatePQs(pq.vertexPQs), !.pc = "idle"]
  /\ UNCHANGED << object_vars, ds_vars, fm, wk, bd >>

\* the move of another search changes what bestDestinationBlock returns
\* for vertex v
ConcurrentMove(v) ==
  /\ pq.pc \in { "idle", "loop" }
  /\ pq.moves < MaxPQMoves
  /\ \E r \in FreshResults(pq.part[v]) :
       /\ r # pq.fresh[v]
       /\ pq' = [pq EXCEPT !.fresh[v] = r, !.moves = @ + 1]
  /\ UNCHANGED << object_vars, ds_vars, fm, wk, bd >>

NextPQ ==
  \/ FindNextMove
  \/ FindNextMoveIteration
  \/ UpdatePQs
  \/ \E v \in Nodes : ConcurrentMove(v)

SpecPQ == InitPQ /\ [][NextPQ]_vars

\* C30: findNextMove returns false iff the block queue is empty when it is
\* called; a move it returns has from = the block whose vertex queue held
\* the vertex, the target and the gain of a fresh bestDestinationBlock
\* evaluation of the vertex, a gain not below the key under which the
\* vertex was stored, and the vertex is in no queue any more; a vertex whose
\* fresh gain is below its key is not returned in that pass of the loop but
\* re-keyed to the fresh gain, and the key of its block in the block queue
\* is the new top key of the vertex queue of that block.
C30_ReevaluationBeforeCommit ==
  /\ pq.pc = "returned" => (pq.result <=> ~pq.empty_on_entry)
  /\ (pq.pc = "returned" /\ pq.result) =>
       /\ pq.held = { pq.m.from }
       /\ pq.m.to = pq.fresh[pq.m.node].to
       /\ pq.m.gain = pq.fresh[pq.m.node].gain
       /\ pq.m.gain >= pq.stored
       /\ \A b \in FmBlocks : ~contains(pq.vertexPQs[b], pq.m.node)
  /\ pq.step = "retry" =>
       /\ pq.pc = "loop"
       /\ pq.m.gain < pq.stored
       /\ keyOf(pq.vertexPQs[pq.m.from], pq.m.node) = pq.m.gain
       /\ keyOf(pq.blockPQ, pq.m.from) = topKey(pq.vertexPQs[pq.m.from])

\* a call has re-keyed a vertex whose gain had fallen and has then returned
\* a move with a gain above the key of its vertex
C30_Witness ==
  /\ pq.pc = "returned"
  /\ pq.result
  /\ pq.retries > 0
  /\ pq.m.gain > pq.stored

\* a call has found the block queue empty
C30_Witness_Empty == pq.pc = "returned" /\ ~pq.result /\ pq.empty_on_entry

\* ------------------------------------------------------------------------
\* MultiTryKWayFM::refine on the partitioned hypergraph of the fixture: the
\* rounds, the work queue of seeds, the tasks that pop seeds and run
\* localized searches, the node tracker and the global rollback. The
\* localized search and the node tracker are taken from their description:
\* a search reserves its seed, moves reserved vertices with
\* changeNodePartFullUpdate, reserves neighbours of the vertices it moved,
\* and ends with clearPQs. There is one socket, hence one queue.
\* ------------------------------------------------------------------------

\* number of bits of the size counter of a queue (64 in size_t)
SizeBits == 3

SizeModulus == 2 ^ SizeBits

\* largest context.refinement.fm.multitry_rounds
MaxRounds == 1

\* ConcurrentDataContainer(maxNumElements): size(0), elements(maxNumElements, T())
NewContainer(maxNumElements) ==
  [ size |-> 0, elements |-> [i \in 1 .. maxNumElements |-> 0] ]

\* push_back: fetch_add on size, then the store into the old slot
push_back(q, el) ==
  [ size |-> (q.size + 1) % SizeModulus,
    elements |-> [q.elements EXCEPT ![q.size + 1] = el] ]

\* mutant: the counter is left alone when the container is empty
try_pop_Guarded(q) ==
  [ q |-> IF q.size > 0 THEN [q EXCEPT !.size = q.size - 1] ELSE q,
    success |-> q.size > 0, slot |-> q.size - 1 ]

\* try_pop: fetch_sub on size, whatever its value; success if the old value
\* was above 0; slot is the index old_size - 1 that is read then
try_pop(q) ==
  [ q |-> [q EXCEPT !.size = (q.size - 1) % SizeModulus],
    success |-> q.size > 0, slot |-> q.size - 1 ]

\* the values dest can get from elements[slot]: the element, or for a slot
\* outside the vector any value, a vertex id or not
ReadSlot(q, slot) ==
  IF slot < Len(q.elements) THEN { q.elements[slot + 1] }
  ELSE Nodes \cup { kInvalidHypernode }

RECURSIVE PushAll(_, _)
PushAll(q, us) == IF us = << >> THEN q ELSE PushAll(push_back(q, Head(us)), Tail(us))

\* the border vertices among the vertices of order, in that order
RECURSIVE BorderNodesIn(_, _)
BorderNodesIn(s, order) ==
  IF order = << >> THEN << >>
  ELSE IF isBorderNode(s, Head(order))
       THEN << Head(order) >> \o BorderNodesIn(s, Tail(order))
       ELSE BorderNodesIn(s, Tail(order))

\* node tracker entries
UnusedNode == [ state |-> "unused", sid |-> 0 ]

ReservedBy(sid) == [ state |-> "reserved", sid |-> sid ]

MovedBy(sid) == [ state |-> "moved", sid |-> sid ]

\* a task that has not popped a seed
IdleWorker == [ pc |-> "pop", u |-> 0, sid |-> 0, pq |-> {}, moves |-> 0 ]

\* the ids held by a running search or by a vertex
UsedSearchIDs(owner, workers) ==
  { owner[v].sid : v \in Nodes } \cup { workers[t].sid : t \in Threads }

\* mutant: every search gets the same id
MintSearchID_Same(owner, workers) == 1

\* ++highestActiveSearchID: the counter only grows, so that the id it
\* returns is held by no search and by no vertex; ids are compared for
\* equality only, and the new id is given as the least id not in use
MintSearchID(owner, workers) ==
  CHOOSE i \in 1 .. (Cardinality(Nodes) + Cardinality(Threads) + 1) :
    /\ i \notin UsedSearchIDs(owner, workers)
    /\ \A j \in 1 .. (i - 1) : j \in UsedSearchIDs(owner, workers)

\* mutant: the reservation overwrites the entry of another search
reserve_NoCAS(owner, v, sid) ==
  [ owner |-> [owner EXCEPT ![v] = ReservedBy(sid)], success |-> TRUE ]

\* reserve(v, sid): compare-and-swap of owner[v] from unused to sid
reserve(owner, v, sid) ==
  IF owner[v] = UnusedNode
  THEN [ owner |-> [owner EXCEPT ![v] = ReservedBy(sid)], success |-> TRUE ]
  ELSE [ owner |-> owner, success |-> FALSE ]

\* mutant: clearPQs releases nothing
clearPQs_KeepsAll(owner, s) == owner

\* clearPQs: the vertices still in the queues are released if release_nodes
\* is set, the algorithm is fm_multitry and the search has made a move
clearPQs(owner, s) ==
  IF fm.release_nodes /\ fm.algorithm = "fm_multitry" /\ s.moves > 0
  THEN [v \in Nodes |-> IF v \in s.pq THEN UnusedNode ELSE owner[v]]
  ELSE owner

\* the moves of reverts applied through the move primitive
RECURSIVE ApplyReverts(_, _)
ApplyReverts(s, reverts) ==
  IF reverts = << >> THEN s
  ELSE LET m == Head(reverts)
       IN ApplyReverts(changeNodePartFullUpdate(s, m.node, m.from, m.to, kMaxWeight).s,
                       Tail(reverts))

\* the refiner after the last task of a round has ended: global rollback,
\* then the test of the improvement at the end of the loop body
EndOfRound(f, improvement) ==
  [f EXCEPT !.improvements = Append(@, improvement),
            !.overall_improved = @ \/ improvement > 0,
            !.round = @ + 1,
            !.log = << >>,
            !.pc = IF improvement > 0 THEN "loop" ELSE "returned",
            !.result = f.overall_improved \/ improvement > 0]

\* the settings of sharedData.release_nodes and of
\* context.refinement.fm.algorithm the refiner is run with
ReleasePolicies ==
  { [ release_nodes |-> TRUE, algorithm |-> "fm_multitry" ],
    [ release_nodes |-> FALSE, algorithm |-> "fm_multitry" ],
    [ release_nodes |-> TRUE, algorithm |-> "fm_boundary" ] }

\* refine is called on a partitioned hypergraph with its gain cache
InitRefine ==
  /\ ncalls = 0 /\ last = NoCall /\ prev = NoCall
  /\ th = [t \in Threads |-> Idle] /\ done = << >>
  /\ lifecycle = "partitioned"
  /\ DsIdle
  /\ bd = NoGain /\ pq = NoPQ
  /\ \E a \in { b \in [Nodes -> Blocks] : b[0] = 0 } :
       /\ phg = initializeGainInformation(ViaInitializePartition(a),
                   CHOOSE q \in NodeOrders : TRUE,
                   [u \in Nodes |-> CHOOSE t \in Threads : TRUE],
                   CHOOSE x \in EdgeSplits : TRUE)
       /\ start = phg
  /\ \E multitry_rounds \in 0 .. MaxRounds, policy \in ReleasePolicies :
       fm = [ pc |-> "loop", round |-> 0, multitry_rounds |-> multitry_rounds,
              release_nodes |-> policy.release_nodes,
              algorithm |-> policy.algorithm,
              max_part_weight |-> MaxPartWeight + 1,
              overall_improved |-> FALSE, improvements |-> << >>,
              result |-> FALSE,
              queue |-> NewContainer(Cardinality(Nodes)),
              owner |-> [v \in Nodes |-> UnusedNode],
              log |-> << >> ]
  /\ wk = [t \in Threads |-> IdleWorker]

\* the test of the for loop; if it passes, initialize(phg), which pushes the
\* border vertices (here in the order of their ids), and the start of the
\* tasks
RoundStart ==
  /\ fm.pc = "loop"
  /\ IF fm.round < fm.multitry_rounds
     THEN fm' = [fm EXCEPT
                   !.pc = "searches",
                   !.queue = PushAll(@, BorderNodesIn(phg,
                               [i \in 1 .. Cardinality(Nodes) |-> i - 1])),
                   !.owner = [v \in Nodes |-> UnusedNode]]
     ELSE fm' = [fm EXCEPT !.pc = "returned", !.result = fm.overall_improved]
  /\ wk' = [t \in Threads |-> IdleWorker]
  /\ UNCHANGED << object_vars, ds_vars, bd, pq >>

\* tryPop, first part: try_pop on the queue of the preferred socket
TryPop(t) ==
  /\ fm.pc = "searches"
  /\ wk[t].pc = "pop"
  /\ LET r == try_pop(fm.queue)
     IN /\ fm' = [fm EXCEPT !.queue = r.q]
        /\ IF r.success
           THEN \E dest \in ReadSlot(fm.queue, r.slot) :
                  wk' = [wk EXCEPT ![t].pc = "find", ![t].u = dest]
           ELSE wk' = [wk EXCEPT ![t].pc = "steal"]
  /\ UNCHANGED << object_vars, ds_vars, bd, pq >>

\* tryPop, second part: try_pop on the queue of greatest size; when it fails
\* the task ends, and the last task to end lets refine go on with the
\* global rollback
Steal(t) ==
  /\ fm.pc = "searches"
  /\ wk[t].pc = "steal"
  /\ LET r == try_pop(fm.queue)
     IN IF r.success
        THEN /\ \E dest \in ReadSlot(fm.queue, r.slot) :
                  wk' = [wk EXCEPT ![t].pc = "find", ![t].u = dest]
             /\ fm' = [fm EXCEPT !.queue = r.q]
             /\ phg' = phg
        ELSE /\ wk' = [wk EXCEPT ![t].pc = "done"]
             /\ IF \A t2 \in Threads \ { t } : wk[t2].pc = "done"
                THEN LET b == globalRollbackToBestPrefix(fm.log)
                     IN /\ phg' = ApplyReverts(phg, b.reverts)
                        /\ fm' = EndOfRound([fm EXCEPT !.queue = r.q], b.improvement)
                ELSE /\ phg' = phg
                     /\ fm' = [fm EXCEPT !.queue = r.q]
  /\ UNCHANGED << lifecycle, ncalls, last, prev, th, start, done, ds_vars, bd, pq >>

\* findMoves(phg, u, sharedData, ++highestActiveSearchID): the search
\* reserves its seed or gives it up
FindMoves(t) ==
  /\ fm.pc = "searches"
  /\ wk[t].pc = "find"
  /\ IF wk[t].u \notin Nodes
     THEN /\ fm' = [fm EXCEPT !.pc = "crashed"]
          /\ wk' = wk
     ELSE LET sid == MintSearchID(fm.owner, wk)
              r == reserve(fm.owner, wk[t].u, sid)
          IN /\ fm' = [fm EXCEPT !.owner = r.owner]
             /\ wk' = [wk EXCEPT ![t] =
                  IF r.success
                  THEN [ pc |-> "search", u |-> wk[t].u, sid |-> sid,
                         pq |-> { wk[t].u }, moves |-> 0 ]
                  ELSE IdleWorker]
  /\ UNCHANGED << object_vars, ds_vars, bd, pq >>

\* the search moves a vertex of its queues to another block
SearchMove(t, v, to) ==
  /\ fm.pc = "searches"
  /\ wk[t].pc = "search"
  /\ v \in wk[t].pq
  /\ to # partID(phg, v)
  /\ LET from == partID(phg, v)
         r == changeNodePartFullUpdate(phg, v, from, to, fm.max_part_weight)
     IN /\ r.success
        /\ phg' = r.s
        /\ fm' = [fm EXCEPT
                    !.owner[v] = MovedBy(wk[t].sid),
                    !.log = Append(@, [ node |-> v, from |-> from, to |-> to,
                                        gain |-> km1Gain(phg, v, from, to),
                                        sid |-> wk[t].sid ])]
        /\ wk' = [wk EXCEPT ![t].pq = @ \ { v }, ![t].moves = @ + 1]
  /\ UNCHANGED << lifecycle, ncalls, last, prev, th, start, done, ds_vars, bd, pq >>

\* the vertices that share a hyperedge with a vertex the search has moved
NeighboursOfMoved(sid) ==
  { w \in Nodes : \E i \in 1 .. Len(fm.log) :
      /\ fm.log[i].sid = sid
      /\ \E e \in Edges : { w, fm.log[i].node } \subseteq PinSet(e) }

\* the search reserves a neighbour of a vertex it has moved
SearchExpand(t, w) ==
  /\ fm.pc = "searches"
  /\ wk[t].pc = "search"
  /\ w \in NeighboursOfMoved(wk[t].sid)
  /\ LET r == reserve(fm.owner, w, wk[t].sid)
     IN /\ r.success
        /\ fm' = [fm EXCEPT !.owner = r.owner]
        /\ wk' = [wk EXCEPT ![t].pq = @ \cup { w }]
  /\ UNCHANGED << object_vars, ds_vars, bd, pq >>

\* the search stops: clearPQs, and the task goes back to the work queue
EndSearch(t) ==
  /\ fm.pc = "searches"
  /\ wk[t].pc = "search"
  /\ fm' = [fm EXCEPT !.owner = clearPQs(fm.owner, wk[t])]
  /\ wk' = [wk EXCEPT ![t] = IdleWorker]
  /\ UNCHANGED << object_vars, ds_vars, bd, pq >>

WorkerStep(t) ==
  \/ TryPop(t)
  \/ Steal(t)
  \/ FindMoves(t)
  \/ \E v \in Nodes, to \in Blocks : SearchMove(t, v, to)
  \/ \E w \in Nodes : SearchExpand(t, w)
  \/ EndSearch(t)

NextRefine ==
  \/ RoundStart
  \/ \E t \in Threads : WorkerStep(t)

SpecRefine == InitRefine /\ [][NextRefine]_vars

\* the task of thread t can take a step: a task that has not ended can
\* always pop, give up or reserve a seed, or end its search
CanStep(t) == fm.pc = "searches" /\ wk[t].pc # "done"

\* weak fairness of WorkerStep(t), written out with CanStep(t) for
\* ENABLED <<WorkerStep(t)>>_vars
WeakFairWorker(t) ==
  []<>(~CanStep(t)) \/ []<><<WorkerStep(t)>>_vars

\* every task that can take a step takes one, and so does refine
SpecRefineFair ==
  /\ SpecRefine
  /\ WF_vars(RoundStart)
  /\ \A t \in Threads : WeakFairWorker(t)

\* ------------------------------------------------------------------------
\* C23: the rounds of refine
\* ------------------------------------------------------------------------

\* refine has returned after rounds as the loop of refine ends them: at most
\* multitry_rounds rounds, each ended by one global rollback; every round
\* but the last reported an improvement above 0; the last round is round
\* multitry_rounds or reported no improvement; the value returned tells
\* whether a round reported an improvement above 0
ReturnedAfterRounds ==
  LET n == Len(fm.improvements)
  IN /\ fm.pc = "returned"
     /\ n = fm.round
     /\ n <= fm.multitry_rounds
     /\ \A i \in 1 .. (n - 1) : fm.improvements[i] > 0
     /\ n = fm.multitry_rounds \/ (n > 0 /\ fm.improvements[n] <= 0)
     /\ fm.result <=> \E i \in 1 .. n : fm.improvements[i] > 0

\* C23: a call of refine runs at most multitry_rounds rounds, each made of
\* initialize, the parallel searches and one global rollback, stops after
\* the first round whose rollback reports an improvement of 0 or less, and
\* returns true iff a round reported an improvement above 0.
C23_RefineRounds == <>ReturnedAfterRounds

\* ------------------------------------------------------------------------
\* C25: exclusive reservation of vertices
\* ------------------------------------------------------------------------

\* the searches that are running
ActiveSearches == { t \in Threads : wk[t].pc = "search" }

\* the running searches that own vertex v
OwnersOf(v) ==
  { t \in ActiveSearches :
      fm.owner[v].state # "unused" /\ fm.owner[v].sid = wk[t].sid }

\* running searches carry distinct ids, a vertex in the queues of a search
\* is reserved by it, a vertex is owned by at most one running search, and
\* the moves of one vertex in the log of the round are moves of one search
ExclusiveOwnership ==
  /\ \A t1, t2 \in ActiveSearches : t1 # t2 => wk[t1].sid # wk[t2].sid
  /\ \A t \in ActiveSearches : \A v \in wk[t].pq :
       fm.owner[v] = ReservedBy(wk[t].sid)
  /\ \A t1, t2 \in ActiveSearches : t1 # t2 => wk[t1].pq \cap wk[t2].pq = {}
  /\ \A v \in Nodes : Cardinality(OwnersOf(v)) <= 1
  /\ \A i, j \in 1 .. Len(fm.log) :
       fm.log[i].node = fm.log[j].node => fm.log[i].sid = fm.log[j].sid

\* a step reserves a vertex only if the vertex was unused, and the search
\* of a seed that is a vertex starts iff the seed was unused
ReserveStep ==
  /\ \A v \in Nodes :
       (fm'.owner[v].state = "reserved" /\ fm'.owner[v] # fm.owner[v])
         => fm.owner[v] = UnusedNode
  /\ \A t \in Threads :
       (fm.pc = "searches" /\ wk[t].pc = "find" /\ wk[t].u \in Nodes
          /\ wk'[t] # wk[t])
         => (wk'[t].pc = "search" <=> fm.owner[wk[t].u] = UnusedNode)

EndSearchStep(t) == wk[t].pc = "search" /\ wk'[t].pc = "pop"

\* C31: when release_nodes is on and a localized search ends (clearPQs),
\* every vertex still in a vertex queue (reserved, not moved) is released in
\* the node tracker, whether or not the search has made a move, and all the
\* queues of the search are empty afterwards.
C31_ReleaseAtSearchEnd ==
  [][ \A t \in Threads :
        (EndSearchStep(t) /\ fm.release_nodes) =>
          /\ \A v \in wk[t].pq : fm'.owner[v] = UnusedNode
          /\ wk'[t].pq = {} ]_vars

\* C31 amended: clearPQs releases the vertices still in the queues iff
\* release_nodes is on, the algorithm is fm_multitry and the search has made
\* at least one move; otherwise these vertices keep their reservation; in
\* every case the queues of the search are empty afterwards.
C31_ReleaseAfterMoves ==
  [][ \A t \in Threads :
        EndSearchStep(t) =>
          /\ \A v \in wk[t].pq :
               fm'.owner[v] =
                 IF fm.release_nodes /\ fm.algorithm = "fm_multitry" /\ wk[t].moves > 0
                 THEN UnusedNode ELSE fm.owner[v]
          /\ \A v \in Nodes \ wk[t].pq : fm'.owner[v] = fm.owner[v]
          /\ wk'[t].pq = {} ]_vars

\* with release_nodes on and fm_multitry, a search has ended without a move
\* and its seed is still reserved under its id, while another search has
\* ended after a move and a neighbour of the moved vertex is unused
C31_Witness ==
  /\ fm.release_nodes /\ fm.algorithm = "fm_multitry"
  /\ \E v \in Nodes :
       /\ fm.owner[v].state = "reserved"
       /\ \A t \in Threads : wk[t].sid # fm.owner[v].sid
  /\ \E i \in 1 .. Len(fm.log) :
       /\ \A t \in Threads : wk[t].sid # fm.log[i].sid
       /\ \E w \in NeighboursOfMoved(fm.log[i].sid) : fm.owner[w] = UnusedNode

\* ------------------------------------------------------------------------
\* IntegralAtomicWrapper<T>: the increment and decrement operators. T is an
\* unsigned integer of AtomicBits bits; an operator gives the stored value
\* and the value it returns.
\* ------------------------------------------------------------------------

\* number of bits of T
AtomicBits == 3

AtomicModulus == 2 ^ AtomicBits

\* T operator++ () { return ++_value; }
preIncrement(x) ==
  [ value |-> (x + 1) % AtomicModulus, ret |-> (x + 1) % AtomicModulus ]

\* T operator++ (int) { return _value++; }
postIncrement(x) == [ value |-> (x + 1) % AtomicModulus, ret |-> x ]

\* T operator-- () { return --_value; }
preDecrement(x) ==
  [ value |-> (x - 1) % AtomicModulus, ret |-> (x - 1) % AtomicModulus ]

\* T operator-- (int) { return _value++; }
postDecrement(x) == [ value |-> (x + 1) % AtomicModulus, ret |-> x ]

AtomicOps == { "pre_inc", "post_inc", "pre_dec", "post_dec" }

ApplyAtomic(op, x) ==
  CASE op = "pre_inc" -> preIncrement(x)
    [] op = "post_inc" -> postIncrement(x)
    [] op = "pre_dec" -> preDecrement(x)
    [] op = "post_dec" -> postDecrement(x)

\* a wrapper holding any value
InitAtomic ==
  /\ InitObject
  /\ star = NoStar /\ ex = NoExtract /\ rb = NoRollback /\ cq = NoQueue
  /\ hc = NoConstruct /\ un = NoUncontract
  /\ FmIdle
  /\ \E x \in 0 .. (AtomicModulus - 1) :
       aw = [ op |-> "init", value |-> x, ret |-> 0, before |-> x,
              op0 |-> "init", before0 |-> x ]

\* an operator is applied to the wrapper; the wrapper keeps the operator
\* before it and the value stored before that one
AtomicOp(op) ==
  /\ aw.op # "none"
  /\ LET r == ApplyAtomic(op, aw.value)
     IN aw' = [ op |-> op, value |-> r.value, ret |-> r.ret,
                before |-> aw.value, op0 |-> aw.op, before0 |-> aw.before ]
  /\ UNCHANGED << object_vars, star, ex, rb, cq, hc, un, fm_vars >>

NextAtomic == \E op \in AtomicOps : AtomicOp(op)

SpecAtomic == InitAtomic /\ [][NextAtomic]_vars

\* C40: the post-decrement of IntegralAtomicWrapper mirrors the
\* post-increment: x-- returns the value stored before it and leaves the
\* stored value decreased by one modulo the width of T, so that x++ followed
\* by x-- restores the stored value.
C40_PostDecrementMirrors ==
  /\ aw.op = "post_dec" =>
       /\ aw.ret = aw.before
       /\ aw.value = (aw.before - 1) % AtomicModulus
  /\ (aw.op0 = "post_inc" /\ aw.op = "post_dec") => aw.value = aw.before0

\* ------------------------------------------------------------------------
\* NumaWorkQueue<HypernodeID> with two sockets: the queues after the pushes
\* of initialize, shuffleQueues, and threads that call tryPop in a loop as
\* the tasks of refine do. Every load and every fetch_sub is a step.
\* ------------------------------------------------------------------------

\* the sockets, each with its ConcurrentDataContainer
Sockets == { 0, 1 }

\* maxNumElements of every container: the number of vertices
QueueCapacity == Cardinality(Nodes)

\* number of successful tryPop calls after which the threads are stopped
MaxPops == 4

\* the values a tryPop can give
PopValues == Nodes \cup { kInvalidHypernode }

\* the number of times x occurs in the first n elements of sequence q
CountIn(q, n, x) == Cardinality({ i \in 1 .. n : q[i] = x })

\* the sequences without repetition of the elements of set S
OrdersOf(S) ==
  { q \in [1 .. Cardinality(S) -> S] : \A i, j \in 1 .. Cardinality(S) : q[i] = q[j] => i = j }

\* a thread that is about to call tryPop
PopThread(socket) ==
  [ pc |-> "pop", socket |-> socket, i |-> 0, maxIndex |-> 0, maxSize |-> 0,
    all_empty |-> FALSE ]

\* the queues after initialize has pushed the seeds: a seed goes to the
\* queue of its socket, in any order among the seeds of that socket
InitQueue ==
  /\ InitObject
  /\ star = NoStar /\ ex = NoExtract /\ rb = NoRollback /\ aw = NoAtomic
  /\ hc = NoConstruct /\ un = NoUncontract
  /\ FmIdle
  /\ \E seeds \in SUBSET Nodes, numa \in [Nodes -> Sockets] :
     \E pushed \in [Sockets -> UNION { OrdersOf(S) : S \in SUBSET Nodes }] :
     \E preferred \in [Threads -> Sockets] :
       /\ \A s \in Sockets :
            pushed[s] \in OrdersOf({ u \in seeds : numa[u] = s })
       /\ cq = [ pc |-> "filled",
                 queues |-> [s \in Sockets |->
                               PushAll(NewContainer(QueueCapacity), pushed[s])],
                 pushed |-> pushed,
                 shuffled |-> FALSE,
                 th |-> [t \in Threads |-> PopThread(preferred[t])],
                 returned |-> [x \in PopValues |-> 0],
                 pops |-> 0 ]

\* mutant: only the elements below size are permuted
ShuffleRange_Filled(q) == 1 .. q.size

\* std::shuffle(data.begin(), data.end(), rng): the positions the shuffle
\* permutes are those of the whole underlying container
ShuffleRange(q) == 1 .. Len(q.elements)

\* the containers shuffle can leave: the elements of the range in any of
\* the orders the random number generator can give
Shuffles(q) ==
  { [q EXCEPT !.elements = [i \in 1 .. Len(q.elements) |->
                              IF i \in ShuffleRange(q) THEN q.elements[p[i]]
                              ELSE q.elements[i]]] :
      p \in OrdersOf(ShuffleRange(q)) }

\* initialize ends: shuffleQueues if context.refinement.fm.shuffle
\* is set, then the tasks start
ShuffleQueues(shuffle) ==
  /\ cq.pc = "filled"
  /\ IF shuffle
     THEN \E qs \in [Sockets -> UNION { Shuffles(cq.queues[s]) : s \in Sockets }] :
            /\ \A s \in Sockets : qs[s] \in Shuffles(cq.queues[s])
            /\ cq' = [cq EXCEPT !.pc = "popping", !.queues = qs, !.shuffled = TRUE]
     ELSE cq' = [cq EXCEPT !.pc = "popping"]
  /\ UNCHANGED << object_vars, star, ex, rb, aw, hc, un, fm_vars >>

\* the thread record and the counts after a tryPop that gave dest
PopReturned(c, t, dest) ==
  [c EXCEPT !.th[t] = PopThread(c.th[t].socket),
            !.returned[dest] = @ + 1,
            !.pops = @ + 1]

\* tryPop(dest, preferredSocket): try_pop on the queue of the preferred
\* socket
QueueTryPop(t) ==
  /\ cq.pc = "popping"
  /\ cq.th[t].pc = "pop"
  /\ cq.pops < MaxPops
  /\ LET s == cq.th[t].socket
         r == try_pop(cq.queues[s])
         c == [cq EXCEPT !.queues[s] = r.q]
     IN IF r.success
        THEN \E dest \in ReadSlot(cq.queues[s], r.slot) : cq' = PopReturned(c, t, dest)
        ELSE cq' = [c EXCEPT !.th[t].pc = "scan", !.th[t].i = 0,
                             !.th[t].maxIndex = 0, !.th[t].maxSize = 0,
                             !.th[t].all_empty =
                               \A s2 \in Sockets : cq.queues[s2].size = 0]
  /\ UNCHANGED << object_vars, star, ex, rb, aw, hc, un, fm_vars >>

\* tryPop: one pass of the loop that looks for the queue of greatest size
QueueScan(t) ==
  /\ cq.pc = "popping"
  /\ cq.th[t].pc = "scan"
  /\ LET r == cq.th[t]
         size == cq.queues[r.i].size
         larger == size > r.maxSize
     IN cq' = [cq EXCEPT
                 !.th[t].maxSize = IF larger THEN size ELSE @,
                 !.th[t].maxIndex = IF larger THEN r.i ELSE @,
                 !.th[t].i = @ + 1,
                 !.th[t].pc = IF r.i + 1 = Cardinality(Sockets) THEN "steal" ELSE "scan"]
  /\ UNCHANGED << object_vars, star, ex, rb, aw, hc, un, fm_vars >>

\* tryPop: try_pop on the queue the scan has found; when it fails tryPop
\* returns false and the loop of the thread ends
QueueSteal(t) ==
  /\ cq.pc = "popping"
  /\ cq.th[t].pc = "steal"
  /\ LET s == cq.th[t].maxIndex
         r == try_pop(cq.queues[s])
         c == [cq EXCEPT !.queues[s] = r.q]
     IN IF r.success
        THEN \E dest \in ReadSlot(cq.queues[s], r.slot) : cq' = PopReturned(c, t, dest)
        ELSE cq' = [c EXCEPT !.th[t].pc = "done"]
  /\ UNCHANGED << object_vars, star, ex, rb, aw, hc, un, fm_vars >>

NextQueue ==
  \/ \E shuffle \in BOOLEAN : ShuffleQueues(shuffle)
  \/ \E t \in Threads : QueueTryPop(t) \/ QueueScan(t) \/ QueueSteal(t)

SpecQueue == InitQueue /\ [][NextQueue]_vars

\* ------------------------------------------------------------------------
\* C33: a pop from an empty queue
\* ------------------------------------------------------------------------

\* the counter of no container is above the number of elements pushed
SizeWithinPushed ==
  cq.pc # "none" => \A s \in Sockets : cq.queues[s].size <= Len(cq.pushed[s])

\* a try_pop on a container whose counter is 0 leaves the counter at 0, and
\* a tryPop that has found all queues empty returns false
EmptyPopFails ==
  /\ \A s \in Sockets :
       (cq.pc = "popping" /\ cq.queues[s].size = 0) => cq'.queues[s].size = 0
  /\ \A t \in Threads :
       (cq.pc = "popping" /\ cq.th[t].pc = "steal" /\ cq.th[t].all_empty
          /\ cq'.th[t] # cq.th[t])
         => cq'.th[t].pc = "done"

\* C33: a pop from an empty queue fails cleanly: try_pop on an empty
\* ConcurrentDataContainer returns false and leaves the size counter at 0,
\* without wrap-around of the unsigned counter, so that tryPop returns false
\* when all queues are empty and the loop of a task ends once the seeds are
\* exhausted.
C33_EmptyPopFailsCleanly == []SizeWithinPushed /\ [][EmptyPopFails]_vars

\* ------------------------------------------------------------------------
\* C32: every seed is returned once
\* ------------------------------------------------------------------------

\* the number of times x has been pushed
PushedCount(x) ==
  Cardinality({ s \in Sockets : \E i \in 1 .. Len(cq.pushed[s]) : cq.pushed[s][i] = x })

\* C32: under every interleaving of the tryPop calls of several threads
\* (preferred socket first, then the fullest queue) no value is returned
\* that was not pushed, no pushed vertex is returned twice, and when every
\* thread has left its loop every pushed vertex has been returned once.
C32_SeedsConsumedOnce ==
  cq.pc = "popping" =>
    /\ \A x \in PopValues : cq.returned[x] <= PushedCount(x)
    /\ (\A t \in Threads : cq.th[t].pc = "done") =>
         \A x \in PopValues : cq.returned[x] = PushedCount(x)

\* ------------------------------------------------------------------------
\* C34: shuffleQueues
\* ------------------------------------------------------------------------

\* C34: shuffling only permutes the seeds: for every queue, the values the
\* try_pop calls after shuffleQueues return, which are the elements below
\* the size counter, are as a multiset the values pushed before it, for any
\* number of pushed elements up to the capacity of the queue.
C34_ShufflePermutesSeeds ==
  (cq.pc = "popping" /\ cq.shuffled) =>
    \A s \in Sockets : \A x \in PopValues :
      CountIn(cq.queues[s].elements, Len(cq.pushed[s]), x) =
        CountIn(cq.pushed[s], Len(cq.pushed[s]), x)

\* ------------------------------------------------------------------------
\* C37: the moves findNextMove returns and the preconditions of the move
\* primitive
\* ------------------------------------------------------------------------

\* C37: every move for which findNextMove returns true has from = the part
\* id of its vertex, a target block in [0, k), never the invalid block, and
\* a target other than from, in every state of the queues, also when no
\* block is feasible for the top vertex.
C37_MovePreconditions ==
  (pq.pc = "returned" /\ pq.result) =>
    /\ pq.m.from = pq.part[pq.m.node]
    /\ pq.m.to \in FmBlocks
    /\ pq.m.to # pq.m.from

\* ------------------------------------------------------------------------
\* C39: termination of findNextMove
\* ------------------------------------------------------------------------

\* the number of vertices in the vertex queues
NumQueued == Cardinality(UNION { { e[1] : e \in pq.vertexPQs[b] } : b \in FmBlocks })

\* C39: if the gains do not change during the call and the block queue
\* holds on entry the blocks with a non-empty vertex queue under the top
\* keys of these queues, then findNextMove returns after at most as many
\* retries as there are vertices in the vertex queues: in every pass of the
\* loop the top block has a top vertex whose key is the top key of the
\* block queue (the assertion), and the retries of the call never exceed
\* the number of vertices queued when it was entered.
C39_FindNextMoveTerminates ==
  /\ (pq.pc = "loop") =>
       \A from \in Tops(pq.blockPQ) :
         /\ pq.vertexPQs[from] # {}
         /\ topKey(pq.vertexPQs[from]) = topKey(pq.blockPQ)
  /\ (pq.moves = 0 /\ pq.pc \in { "loop", "returned" }) =>
       pq.retries <= NumQueued + (IF pq.pc = "returned" /\ pq.result THEN 1 ELSE 0)

\* a call has returned a move after it had retried every vertex of the
\* queues, three of them, while no gain changed
C39_Witness ==
  /\ pq.pc = "returned" /\ pq.result
  /\ pq.moves = 0
  /\ pq.retries = NumQueued + 1
  /\ pq.retries = Cardinality(Nodes)

\* ------------------------------------------------------------------------
\* C36: the delta events and the change of the objective
\* ------------------------------------------------------------------------

\* Km1GainCache::delta on a delta event
delta(ev) ==
  (IF ev.pin_count_in_to_part_after = 1 THEN ev.edge_weight ELSE 0) +
  (IF ev.pin_count_in_from_part_after = 0 THEN 0 - ev.edge_weight ELSE 0)

\* the step is the one in which the call of thread t updates the pin counts
\* of a hyperedge and emits its delta event
EmitsEvent(t) == th[t].pc = "acquire" /\ th'[t].pc # "acquire"

\* the delta event the call of thread t emits in the step
EmittedEvent(t) ==
  DeltaEvent(incidentEdges(th[t].u)[th[t].i],
             th'[t].pin_count_in_from_part_after,
             th'[t].pin_count_in_to_part_after)

\* C36: the delta events account exactly for the change of the objective,
\* in sequential and in concurrent executions: every step of a move changes
\* km1 by the value (c_to = 1 ? w(e) : 0) - (c_from = 0 ? w(e) : 0) of the
\* delta event emitted in it, and by nothing if it emits none, so that the
\* values of all emitted events add up to km1 of the final partition minus
\* km1 of the initial one.
C36_DeltaEventsAccountKm1 ==
  [][ (lifecycle = "partitioned" /\ lifecycle' = "partitioned") =>
        km1(phg') - km1(phg) =
          SumOver({ t \in Threads : EmitsEvent(t) },
                  [t \in Threads |-> IF EmitsEvent(t) THEN delta(EmittedEvent(t)) ELSE 0]) ]_vars

\* two calls overlap; one has just emitted an event that takes a block out
\* of a hyperedge, the other one that brings a block into a hyperedge, and
\* the objective differs from the one at the start
C36_Witness ==
  /\ \E t1, t2 \in Threads :
       /\ t1 # t2
       /\ th[t1].pc \in { "gain_from", "gain_to", "release" }
       /\ th[t2].pc \in { "gain_from", "gain_to", "release" }
       /\ th[t1].pin_count_in_from_part_after = 0
       /\ th[t2].pin_count_in_to_part_after = 1
  /\ km1(phg) # km1(start)

\* ------------------------------------------------------------------------
\* DynamicHypergraphFactory::construct. Vertices and hyperedges are numbered
\* from 0; vector x[i] of the code is element i + 1 of a sequence. The loop
\* over the hyperedges runs in parallel: the hyperedges advance pin by pin in
\* any interleaving. stable_construction_of_incident_edges is left at its
\* default, false.
\* ------------------------------------------------------------------------

\* largest num_hyperedges
MaxConstructEdges == 2

\* largest number of pins of a hyperedge of the input
MaxConstructEdgeSize == 2

\* the pin lists of at most MaxConstructEdgeSize distinct vertices below n
InputPinLists(n) ==
  UNION { OrdersOf(S) : S \in { T \in SUBSET (0 .. (n - 1)) :
                                  Cardinality(T) \in 1 .. MaxConstructEdgeSize } }

\* the edge vectors of at most MaxConstructEdges hyperedges
EdgeVectors(n) == UNION { [1 .. m -> InputPinLists(n)] : m \in 0 .. MaxConstructEdges }

PinsOf(list) == { list[i] : i \in 1 .. Len(list) }

\* the number of hyperedges of edge vector ev that contain vertex v
DegreeIn(ev, v) == Cardinality({ e \in 1 .. Len(ev) : v \in PinsOf(ev[e]) })

\* the sum of the sizes of the first m hyperedges: pin_prefix_sum
RECURSIVE PinPrefixSum(_, _)
PinPrefixSum(ev, m) == IF m = 0 THEN 0 ELSE PinPrefixSum(ev, m - 1) + Len(ev[m])

\* mutant: the vector keeps its length
resize_Keep(vec, n, value) == vec

\* std::vector::resize(n): the first n elements are kept, and elements of
\* the given value are appended up to length n
resize(vec, n, value) ==
  [i \in 1 .. n |-> IF i <= Len(vec) THEN vec[i] ELSE value]

\* lines 1279-1325: _incident_nets gets one vector per vertex, of the length
\* of the degree of the vertex, and the counters hold the degrees
AllocateIncidentNets(num_hypernodes, ev) ==
  [ incident_nets |->
      [v \in 1 .. num_hypernodes |-> resize(<< >>, DegreeIn(ev, v - 1), 0)],
    num_incident_nets_per_vertex |->
      [v \in 1 .. num_hypernodes |-> DegreeIn(ev, v - 1)] ]

\* lines 1337-1341: the number of pins, and the two resize calls with it
SetupArrays(c) ==
  LET num_pins == PinPrefixSum(c.edge_vector, Len(c.edge_vector))
  IN [c EXCEPT !.num_pins = num_pins,
               !.incident_nets = resize(c.incident_nets, num_pins, << >>),
               !.incidence_array = resize(<< >>, num_pins, 0)]

\* construct is called with any number of vertices and any edge vector
InitConstruct ==
  /\ InitObject
  /\ star = NoStar /\ ex = NoExtract /\ rb = NoRollback
  /\ aw = NoAtomic /\ cq = NoQueue /\ un = NoUncontract
  /\ FmIdle
  /\ \E n \in 1 .. Cardinality(Nodes) : \E ev \in EdgeVectors(n) :
       hc = [ pc |-> "sizes", num_hypernodes |-> n, edge_vector |-> ev,
              num_pins |-> 0, incident_nets |-> << >>,
              num_incident_nets_per_vertex |-> << >>,
              incidence_array |-> << >>,
              next |-> [e \in 1 .. Len(ev) |-> 0] ]

\* construct up to the parallel loop over the hyperedges
Allocate ==
  /\ hc.pc = "sizes"
  /\ LET a == AllocateIncidentNets(hc.num_hypernodes, hc.edge_vector)
     IN hc' = SetupArrays([hc EXCEPT
                 !.pc = "edges",
                 !.incident_nets = a.incident_nets,
                 !.num_incident_nets_per_vertex = a.num_incident_nets_per_vertex])
  /\ UNCHANGED << object_vars, star, ex, rb, aw, cq, un, fm_vars >>

\* one pass of the loop over the pins of hyperedge e (lines 1360-1370): the
\* pin goes into the incidence array, and the hyperedge into the incident
\* nets of the pin at the position the decrement of the counter gives; a
\* pin without a vector in _incident_nets makes the store run outside the
\* vector, after which the program stops or goes on
AddPin(e) ==
  /\ hc.pc = "edges"
  /\ hc.next[e] < Len(hc.edge_vector[e])
  /\ LET pin == hc.edge_vector[e][hc.next[e] + 1]
         incidence_array_pos == PinPrefixSum(hc.edge_vector, e - 1) + hc.next[e]
         incident_nets_pos == hc.num_incident_nets_per_vertex[pin + 1] - 1
         c == [hc EXCEPT !.next[e] = @ + 1,
                         !.incidence_array[incidence_array_pos + 1] = pin,
                         !.num_incident_nets_per_vertex[pin + 1] = incident_nets_pos]
     IN IF pin < Len(hc.incident_nets)
        THEN hc' = [c EXCEPT !.incident_nets[pin + 1][incident_nets_pos + 1] = e - 1]
        ELSE \E stops \in BOOLEAN :
               hc' = IF stops THEN [c EXCEPT !.pc = "crashed"] ELSE c
  /\ UNCHANGED << object_vars, star, ex, rb, aw, cq, un, fm_vars >>

\* the loop has ended and construct returns the hypergraph
ReturnHypergraph ==
  /\ hc.pc = "edges"
  /\ \A e \in 1 .. Len(hc.edge_vector) : hc.next[e] = Len(hc.edge_vector[e])
  /\ hc' = [hc EXCEPT !.pc = "done"]
  /\ UNCHANGED << object_vars, star, ex, rb, aw, cq, un, fm_vars >>

NextConstruct ==
  \/ Allocate
  \/ \E e \in 1 .. MaxConstructEdges : e <= Len(hc.edge_vector) /\ AddPin(e)
  \/ ReturnHypergraph

SpecConstruct == InitConstruct /\ [][NextConstruct]_vars

\* pins(e) of the hypergraph construct has built, e numbered from 0
ConstructedPins(e) ==
  SubSeq(hc.incidence_array, PinPrefixSum(hc.edge_vector, e) + 1,
         PinPrefixSum(hc.edge_vector, e + 1))

\* C38: construct yields a consistent incidence structure for every input,
\* also with vertices of degree zero and with fewer pins than vertices, and
\* under every schedule: pins(e) is edge_vector[e] in order, and for every
\* vertex v below num_nodes incident_edges(v) holds exactly the hyperedges
\* whose pin list contains v, each once.
C38_ConstructConsistent ==
  hc.pc = "done" =>
    /\ \A e \in 0 .. (Len(hc.edge_vector) - 1) :
         ConstructedPins(e) = hc.edge_vector[e + 1]
    /\ \A v \in 0 .. (hc.num_hypernodes - 1) :
         /\ v < Len(hc.incident_nets)
         /\ Len(hc.incident_nets[v + 1]) = DegreeIn(hc.edge_vector, v)
         /\ PinsOf(hc.incident_nets[v + 1]) =
              { e \in 0 .. (Len(hc.edge_vector) - 1) : v \in PinsOf(hc.edge_vector[e + 1]) }

\* ------------------------------------------------------------------------
\* Uncoarsening hooks: uncontract(batch) and restoreSinglePinAndParallelNets
\* ------------------------------------------------------------------------

\* the representative u, at most MaxPartners contraction partners v and one
\* vertex that is never contracted
MaxPartners == 2
UnNodes == 0 .. (MaxPartners + 1)
UnEdges == 0 .. 1
UnBlocks == 0 .. 2
Representative == CHOOSE u \in UnNodes : \A x \in UnNodes : u <= x
NoPin == kInvalidPartition

\* the partners 1 .. n were contracted onto the representative in this order
Batches == { 1 .. n : n \in 0 .. MaxPartners }

UnEdgeWeight(e) == e + 1

RECURSIVE UnWeightSum(_)
UnWeightSum(S) ==
  IF S = {} THEN 0
  ELSE LET e == CHOOSE x \in S : TRUE IN UnEdgeWeight(e) + UnWeightSum(S \ {e})

\* pins of e once the vertices of batch are contracted onto the representative
ContractedPins(fine, batch, e) ==
  IF fine[e] \cap batch # {}
  THEN (fine[e] \ batch) \cup {Representative}
  ELSE fine[e]

\* the (memento, hyperedge) pairs the hypergraph hands to the two callbacks of
\* uncontract: shared when u and v are both pins of he after the uncontraction,
\* otherwise v takes the place of u
Mementos(fine, batch, removed) ==
  { [ u |-> Representative, v |-> p[1], he |-> p[2],
      shared |-> Representative \in
                   ContractedPins(fine, { x \in batch : x < p[1] }, p[2]) ] :
    p \in { q \in batch \X (UnEdges \ removed) : q[1] \in fine[q[2]] } }

UnIncidentEdges(s, x) == { e \in s.enabled : x \in s.pins[e] }

UnPinCountInPartRecomputed(s, e, p) ==
  Cardinality({ x \in s.pins[e] : s.part_ids[x] = p })

UnMoveFromBenefitRecomputed(s, x) ==
  UnWeightSum({ e \in UnIncidentEdges(s, x) :
                  s.pins_in_part[e][s.part_ids[x]] = 1 })

UnMoveToPenaltyRecomputed(s, x, p) ==
  UnWeightSum({ e \in UnIncidentEdges(s, x) : s.pins_in_part[e][p] = 0 })

\* checkTrackedPartitionInformation over the enabled hyperedges and vertices
UnCheckTrackedPartitionInformation(s) ==
  /\ \A e \in s.enabled :
       /\ \A p \in UnBlocks :
            s.pins_in_part[e][p] = UnPinCountInPartRecomputed(s, e, p)
       /\ Cardinality({ p \in UnBlocks : s.pins_in_part[e][p] > 0 }) =
            Cardinality(s.connectivity_set[e])
  /\ s.gain_cache =>
       \A x \in UnNodes : s.part_ids[x] # kInvalidPartition =>
         /\ s.move_from_benefit[x] = UnMoveFromBenefitRecomputed(s, x)
         /\ \A p \in UnBlocks : s.part_ids[x] # p =>
              s.move_to_penalty[x][p] = UnMoveToPenaltyRecomputed(s, x, p)

\* first callback of uncontract: u and v are incident to he; pin is the pin the
\* scan over pins(he) stops at (NoPin when it stops at none)
case_one_func(s, u, v, he, pin) ==
  LET block == s.part_ids[u]
      inc == incrementPinCountInPartWithoutGainUpdate(s, he, block)
      s1 == [inc.s EXCEPT !.failed = @ \/ ~(inc.pin_count_after > 1)]
  IN IF ~s.gain_cache THEN s1
     ELSE [s1 EXCEPT
            !.move_from_benefit =
               [x \in UnNodes |->
                  IF inc.pin_count_after = 2 /\ x = pin
                  THEN @[x] - UnEdgeWeight(he) ELSE @[x]],
            !.move_to_penalty[v] =
               [p \in UnBlocks |->
                  IF p \notin s1.connectivity_set[he]
                  THEN @[p] + UnEdgeWeight(he) ELSE @[p]]]

case_two_func_KeepsBenefit(s, u, v, he) ==
  IF ~s.gain_cache THEN s
  ELSE [s EXCEPT
         !.move_to_penalty =
            [x \in UnNodes |-> [p \in UnBlocks |->
               IF p \in s.connectivity_set[he] THEN @[x][p]
               ELSE IF x = u THEN @[x][p] - UnEdgeWeight(he)
               ELSE IF x = v THEN @[x][p] + UnEdgeWeight(he)
               ELSE @[x][p]]]]

\* second callback of uncontract: u is replaced by v in he
case_two_func(s, u, v, he) ==
  IF ~s.gain_cache THEN s
  ELSE LET block == s.part_ids[u]
           shift == s.pins_in_part[he][block] = 1
       IN [s EXCEPT
            !.move_from_benefit =
               [x \in UnNodes |->
                  IF shift /\ x = u THEN @[x] - UnEdgeWeight(he)
                  ELSE IF shift /\ x = v THEN @[x] + UnEdgeWeight(he)
                  ELSE @[x]],
            !.move_to_penalty =
               [x \in UnNodes |-> [p \in UnBlocks |->
                  IF p \in s.connectivity_set[he] THEN @[x][p]
                  ELSE IF x = u THEN @[x][p] - UnEdgeWeight(he)
                  ELSE IF x = v THEN @[x][p] + UnEdgeWeight(he)
                  ELSE @[x][p]]]]

\* the single-pin branch of restoreSinglePinAndParallelNets for hyperedge he
restoreSinglePin(s, he) ==
  LET single_vertex_of_he == CHOOSE x \in s.pins[he] : TRUE
      block_of_single_pin == s.part_ids[single_vertex_of_he]
      s1 == [s EXCEPT !.connectivity_set[he] = @ \cup {block_of_single_pin},
                      !.pins_in_part[he][block_of_single_pin] = 1]
  IN IF ~s.gain_cache THEN s1
     ELSE [s1 EXCEPT
            !.move_to_penalty[single_vertex_of_he] =
               [p \in UnBlocks |->
                  IF p # block_of_single_pin
                  THEN @[p] + UnEdgeWeight(he) ELSE @[p]],
            !.move_from_benefit[single_vertex_of_he] = @ + UnEdgeWeight(he)]

\* the coarse partitioned hypergraph: the batch is contracted, the hyperedges
\* of removed are disabled, every tracked value equals its recomputed value
CoarseState(fine, batch, removed, part, gain_cache) ==
  LET coarse == [e \in UnEdges |->
                 IF e \in removed THEN fine[e] ELSE ContractedPins(fine, batch, e)]
      base == [ pc |-> "coarse",
                pins |-> coarse,
                enabled |-> UnEdges \ removed,
                part_ids |-> [x \in UnNodes |->
                                IF x \in batch THEN kInvalidPartition ELSE part[x]],
                pins_in_part |-> [e \in UnEdges |-> [p \in UnBlocks |->
                   IF e \in removed THEN 0
                   ELSE Cardinality({ x \in coarse[e] : part[x] = p })]],
                connectivity_set |-> [e \in UnEdges |->
                   IF e \in removed THEN {}
                   ELSE { part[x] : x \in coarse[e] }],
                gain_cache |-> gain_cache,
                move_from_benefit |-> [x \in UnNodes |-> 0],
                move_to_penalty |-> [x \in UnNodes |-> [p \in UnBlocks |-> 0]],
                batch |-> batch,
                removed |-> removed,
                todo |-> Mementos(fine, batch, removed),
                restore |-> {},
                log |-> {},
                failed |-> FALSE ]
  IN IF ~gain_cache THEN base
     ELSE [base EXCEPT
            !.move_from_benefit =
               [x \in UnNodes |->
                  IF x \in batch THEN 0 ELSE UnMoveFromBenefitRecomputed(base, x)],
            !.move_to_penalty =
               [x \in UnNodes |-> [p \in UnBlocks |->
                  IF x \in batch THEN 0 ELSE UnMoveToPenaltyRecomputed(base, x, p)]]]

InitUncontract ==
  /\ InitObject
  /\ star = NoStar /\ ex = NoExtract /\ rb = NoRollback
  /\ aw = NoAtomic /\ cq = NoQueue /\ hc = NoConstruct
  /\ FmIdle
  /\ \E fine \in [UnEdges -> (SUBSET UnNodes) \ {{}}] :
     \E batch \in Batches :
     \E removed \in SUBSET { e \in UnEdges : Cardinality(fine[e]) = 1 } :
     \E part \in [UnNodes -> UnBlocks] :
     \E gain_cache \in BOOLEAN :
       /\ \A v \in batch : part[v] = part[Representative]
       /\ un = CoarseState(fine, batch, removed, part, gain_cache)

\* uncontract(batch), up to the call into the hypergraph: the contraction
\* partners get the block of their representative
uncontract ==
  /\ un.pc = "coarse"
  /\ un' = [un EXCEPT
             !.pc = "uncontract",
             !.part_ids = [x \in UnNodes |->
                             IF x \in un.batch THEN un.part_ids[Representative]
                             ELSE @[x]]]
  /\ UNCHANGED << object_vars, star, ex, rb, aw, cq, hc, fm_vars >>

UncontractCaseOne(m) ==
  /\ un.pc = "uncontract" /\ m \in un.todo /\ m.shared
  /\ LET s0 == [un EXCEPT !.pins[m.he] = @ \cup {m.v}]
         found == { x \in s0.pins[m.he] :
                      x # m.v /\ s0.part_ids[x] = s0.part_ids[m.u] }
     IN \E pin \in (IF found = {} THEN {NoPin} ELSE found) :
          un' = [case_one_func(s0, m.u, m.v, m.he, pin) EXCEPT
                  !.todo = @ \ {m}, !.log = @ \cup {"case_one"}]
  /\ UNCHANGED << object_vars, star, ex, rb, aw, cq, hc, fm_vars >>

UncontractCaseTwo(m) ==
  /\ un.pc = "uncontract" /\ m \in un.todo /\ ~m.shared
  /\ LET s0 == [un EXCEPT !.pins[m.he] = (@ \ {m.u}) \cup {m.v}]
     IN un' = [case_two_func(s0, m.u, m.v, m.he) EXCEPT
                !.todo = @ \ {m}, !.log = @ \cup {"case_two"}]
  /\ UNCHANGED << object_vars, star, ex, rb, aw, cq, hc, fm_vars >>

\* restoreSinglePinAndParallelNets, up to its parallel loop: the hypergraph
\* enables the removed hyperedges
restoreSinglePinAndParallelNets ==
  /\ un.pc = "uncontract" /\ un.todo = {}
  /\ un' = [un EXCEPT !.pc = "restore",
                      !.enabled = @ \cup un.removed,
                      !.restore = un.removed]
  /\ UNCHANGED << object_vars, star, ex, rb, aw, cq, hc, fm_vars >>

RestoreNet(he) ==
  /\ un.pc = "restore" /\ he \in un.restore
  /\ un' = [restoreSinglePin(un, he) EXCEPT
             !.restore = @ \ {he}, !.log = @ \cup {"single_pin"}]
  /\ UNCHANGED << object_vars, star, ex, rb, aw, cq, hc, fm_vars >>

NextUncontract ==
  \/ uncontract
  \/ \E m \in un.todo : UncontractCaseOne(m)
  \/ \E m \in un.todo : UncontractCaseTwo(m)
  \/ restoreSinglePinAndParallelNets
  \/ \E he \in UnEdges : RestoreNet(he)

SpecUncontract == InitUncontract /\ [][NextUncontract]_vars

\* uncontract(batch) has returned
Uncontracted == un.pc = "uncontract" /\ un.todo = {}

\* restoreSinglePinAndParallelNets has returned
Restored == un.pc = "restore" /\ un.restore = {}

====
